---- MODULE Spec2Model ----
(***************************************************************************)
(* A model of eth-trie.rs (src/src/trie.rs): the Merkle Patricia Trie      *)
(* EthTrie over a byte-addressed store.                                    *)
(*                                                                         *)
(* Bytes.  A byte string (Vec<u8>, &[u8]) is a sequence of bytes.  A       *)
(* plain byte n is the record [b |-> n], 0 <= n <= 255.  Keccak-256 is     *)
(* modelled as an injective function: the 32 bytes of keccak(data) are one *)
(* head byte [keccak |-> data] that carries the preimage, followed by 31   *)
(* plain zero bytes, so that every length the code computes (a hash is 32  *)
(* bytes, its RLP item 33) is the length the code sees.                    *)
(*                                                                         *)
(* Nodes.  Node::Empty, Leaf, Extension, Branch and Hash are records       *)
(* tagged by t.  Arc<RwLock<..>> bodies are modelled by value; the writes  *)
(* delete_at makes in place are returned next to its result (field old).   *)
(***************************************************************************)
EXTENDS Integers, Sequences, FiniteSets, TLC

(***************************************************************************)
(* Program constants                                                       *)
(***************************************************************************)
HASHED_LENGTH == 32

EMPTY_STRING_CODE == 128

(***************************************************************************)
(* Bytes and Keccak                                                        *)
(***************************************************************************)
Byte(n) == [b |-> n]

Bytes(s) == [i \in 1..Len(s) |-> Byte(s[i])]

IsPlain(x) == "b" \in DOMAIN x

\* The numeric value of a byte; a byte of a hash has no known value and is
\* given one outside 0..255, so that no range test of the codec accepts it.
Val(x) == IF IsPlain(x) THEN x.b ELSE 256

Repeat(x, n) == [i \in 1..n |-> x]

Keccak(data) == <<[keccak |-> data]>> \o Repeat(Byte(0), HASHED_LENGTH - 1)

KECCAK_NULL_RLP == Keccak(<<Byte(EMPTY_STRING_CODE)>>)

Min(a, b) == IF a < b THEN a ELSE b

\* A local binding of the code, `let r = x; body`, is written
\* The({body : r \in {x}}): the value of body with r bound to x.
The(S) == CHOOSE x \in S : TRUE

(***************************************************************************)
(* Option and Result                                                       *)
(***************************************************************************)
None == [some |-> FALSE]

Some(v) == [some |-> TRUE, v |-> v]

(***************************************************************************)
(* crate::nibbles::Nibbles: a sequence of nibbles 0..15, with a trailing   *)
(* 16 (the terminator) on a leaf path.                                     *)
(***************************************************************************)
RECURSIVE from_raw_hex(_)
from_raw_hex(raw) ==
    IF raw = <<>> THEN <<>>
    ELSE <<Val(Head(raw)) \div 16, Val(Head(raw)) % 16>> \o from_raw_hex(Tail(raw))

from_raw(raw, is_leaf) == from_raw_hex(raw) \o (IF is_leaf THEN <<16>> ELSE <<>>)

is_leaf(n) == Len(n) > 0 /\ n[Len(n)] = 16

at(n, i) == n[i + 1]

slice(n, start, end) == SubSeq(n, start + 1, end)

offset(n, index) == slice(n, index, Len(n))

common_prefix(a, b) ==
    LET s == Min(Len(a), Len(b))
        agree == {i \in 0..s : \A j \in 1..i : a[j] = b[j]}
    IN  CHOOSE i \in agree : \A j \in agree : j <= i

join(a, b) == a \o b

RECURSIVE pack_nibbles(_)
pack_nibbles(hex) ==
    IF Len(hex) < 2 THEN <<>>
    ELSE <<Byte(hex[1] * 16 + hex[2])>> \o pack_nibbles(SubSeq(hex, 3, Len(hex)))

\* The hex-prefix encoding: first nibble 2*is_leaf + odd_len.
encode_compact(n) ==
    LET leaf == is_leaf(n)
        hex  == IF leaf THEN SubSeq(n, 1, Len(n) - 1) ELSE n
        odd  == Len(hex) % 2 = 1
        flag == (IF leaf THEN 32 ELSE 0) + (IF odd THEN 16 + hex[1] ELSE 0)
    IN  <<Byte(flag)>> \o pack_nibbles(IF odd THEN Tail(hex) ELSE hex)

\* Nibbles::encode_raw().0: the bytes of a path, its terminator dropped.
nibbles_encode_raw(n) ==
    pack_nibbles(IF is_leaf(n) THEN SubSeq(n, 1, Len(n) - 1) ELSE n)

\* from_compact is applied to a non-empty slice whose flag nibble is 0..3.
CompactOk(c) == Len(c) > 0 /\ Val(c[1]) \div 16 <= 3 /\ \A i \in 1..Len(c) : IsPlain(c[i])

from_compact(c) ==
    LET flag == Val(c[1])
        leaf == (flag \div 16) \in {2, 3}
        odd  == (flag \div 16) \in {1, 3}
    IN  (IF odd THEN <<flag % 16>> ELSE <<>>)
            \o from_raw_hex(Tail(c))
            \o (IF leaf THEN <<16>> ELSE <<>>)

(***************************************************************************)
(* crate::node: the node shapes and their constructors                     *)
(***************************************************************************)
Empty == [t |-> "Empty"]

from_leaf(key, value) == [t |-> "Leaf", key |-> key, value |-> value]

from_extension(prefix, node) == [t |-> "Extension", prefix |-> prefix, node |-> node]

from_branch(children, value) == [t |-> "Branch", children |-> children, value |-> value]

from_hash(hash) == [t |-> "Hash", hash |-> hash]

empty_children == [i \in 1..16 |-> Empty]

\* children[i] of a branch, i in 0..15
child(branch, i) == branch.children[i + 1]

set_child(branch, i, n) == [branch EXCEPT !.children[i + 1] = n]

\* BranchNode::insert: slot 16 is the value slot and takes the leaf's value.
branch_insert(branch, i, n) ==
    IF i = 16 THEN [branch EXCEPT !.value = Some(n.value)]
    ELSE set_child(branch, i, n)

(***************************************************************************)
(* alloy_rlp: Header and the encoding of a byte string                     *)
(***************************************************************************)
\* usize::to_be_bytes without its leading zero bytes
be_bytes(n) ==
    IF n < 256 THEN <<Byte(n)>> ELSE <<Byte(n \div 256), Byte(n % 256)>>

header_encode(list, payload_length) ==
    IF payload_length < 56
    THEN <<Byte((IF list THEN 192 ELSE EMPTY_STRING_CODE) + payload_length)>>
    ELSE LET len_be == be_bytes(payload_length)
         IN  <<Byte((IF list THEN 247 ELSE 183) + Len(len_be))>> \o len_be

\* <[u8] as Encodable>::encode
encode_bytes(s) ==
    IF Len(s) = 1 /\ Val(s[1]) < EMPTY_STRING_CODE THEN s
    ELSE header_encode(FALSE, Len(s)) \o s

HeaderErr == [ok |-> FALSE]

HeaderOk(list, payload_length, rest) ==
    IF Len(rest) < payload_length THEN HeaderErr
    ELSE [ok |-> TRUE, list |-> list, payload_length |-> payload_length, rest |-> rest]

RECURSIVE be_value(_)
be_value(s) == IF s = <<>> THEN 0 ELSE be_value(SubSeq(s, 1, Len(s) - 1)) * 256 + Val(s[Len(s)])

\* Header::decode(buf): the header and the buffer advanced past it.
header_decode(buf) ==
    IF buf = <<>> THEN HeaderErr
    ELSE
    LET b0   == Val(buf[1])
        rest == Tail(buf)
    IN  CASE b0 < 128 -> HeaderOk(FALSE, 1, buf)
          [] b0 >= 128 /\ b0 <= 183 ->
                IF b0 - 128 = 1 /\ (rest = <<>> \/ Val(rest[1]) < 128)
                THEN HeaderErr
                ELSE HeaderOk(FALSE, b0 - 128, rest)
          [] (b0 >= 184 /\ b0 <= 191) \/ (b0 >= 248 /\ b0 <= 255) ->
                LET list == b0 >= 248
                    lol  == b0 - (IF list THEN 247 ELSE 183)
                IN  IF \/ Len(rest) < lol
                       \/ lol > 2
                       \/ \E i \in 1..lol : ~IsPlain(rest[i])
                       \/ Val(rest[1]) = 0
                       \/ be_value(SubSeq(rest, 1, lol)) < 56
                    THEN HeaderErr
                    ELSE HeaderOk(list, be_value(SubSeq(rest, 1, lol)),
                                  SubSeq(rest, lol + 1, Len(rest)))
          [] b0 >= 192 /\ b0 <= 247 -> HeaderOk(TRUE, b0 - 192, rest)
          [] OTHER -> HeaderErr

(***************************************************************************)
(* encode_raw and write_node.  Both return the bytes together with the     *)
(* (hash, encoding) pairs that write_node put into self.cache; the same    *)
(* hashes are what it put into self.gen_keys.                              *)
(***************************************************************************)
Inline(data) == [hash |-> FALSE, data |-> data]

Hashed(h) == [hash |-> TRUE, h |-> h]

rlp_list(payload) == header_encode(TRUE, Len(payload)) \o payload

\* What encode_raw appends to the list for one child position.
child_ref(w) == IF w.enc.hash THEN encode_bytes(w.enc.h) ELSE w.enc.data

RECURSIVE encode_raw(_), write_node(_), encode_children(_, _)

write_node(to_encode) ==
    IF to_encode.t = "Hash" THEN [enc |-> Hashed(to_encode.hash), wrote |-> {}]
    ELSE The({ IF Len(e.data) < HASHED_LENGTH
               THEN [enc |-> Inline(e.data), wrote |-> e.wrote]
               ELSE [enc |-> Hashed(Keccak(e.data)),
                     wrote |-> e.wrote \cup {[hash |-> Keccak(e.data), data |-> e.data]}]
               : e \in {encode_raw(to_encode)} })

\* for i in 0..16 { write_node(children[i]) ... }, from child i on
encode_children(children, i) ==
    IF i > 16 THEN [data |-> <<>>, wrote |-> {}]
    ELSE The({ [data |-> child_ref(w) \o rest.data, wrote |-> w.wrote \cup rest.wrote]
               : w \in {write_node(children[i])},
                 rest \in {encode_children(children, i + 1)} })

encode_raw(node) ==
    CASE node.t = "Empty" -> [data |-> <<Byte(EMPTY_STRING_CODE)>>, wrote |-> {}]
      [] node.t = "Leaf" ->
            [data |-> rlp_list(encode_bytes(encode_compact(node.key))
                                \o encode_bytes(node.value)),
             wrote |-> {}]
      [] node.t = "Branch" ->
            The({ [data |-> rlp_list(cs.data \o (IF node.value.some
                                                  THEN encode_bytes(node.value.v)
                                                  ELSE <<Byte(EMPTY_STRING_CODE)>>)),
                   wrote |-> cs.wrote]
                  : cs \in {encode_children(node.children, 1)} })
      [] node.t = "Extension" ->
            The({ [data |-> rlp_list(encode_bytes(encode_compact(node.prefix))
                                     \o child_ref(w)),
                   wrote |-> w.wrote]
                  : w \in {write_node(node.node)} })
      \* Node::Hash(_) => unreachable!(): no caller passes a Hash node
      [] OTHER -> [data |-> <<>>, wrote |-> {}]

(***************************************************************************)
(* decode_node                                                             *)
(***************************************************************************)
length_of_length(payload_length) ==
    IF payload_length = 1 THEN 0
    ELSE IF payload_length < 56 THEN 1
    ELSE IF payload_length < 256 THEN 2
    ELSE 3

Ok(v) == [ok |-> TRUE, v |-> v]

Err(e) == [ok |-> FALSE, err |-> e]

\* The while loop of decode_node: the items of a list payload, each with its
\* header written back, except in front of a single byte <= 127.
RECURSIVE list_items(_)
list_items(payload) ==
    IF payload = <<>> THEN Ok(<<>>)
    ELSE The({
        IF ~other_header.ok THEN Err("Decoder")
        ELSE The({ IF more.ok
                   THEN Ok(<<(IF ~(Len(value) = 1 /\ Val(value[1]) <= 127)
                              THEN header_encode(other_header.list,
                                                 other_header.payload_length)
                              ELSE <<>>) \o value>> \o more.v)
                   ELSE more
                   : value \in {SubSeq(other_header.rest, 1, other_header.payload_length)},
                     more \in {list_items(SubSeq(other_header.rest,
                                                 other_header.payload_length + 1,
                                                 Len(other_header.rest)))} })
        : other_header \in {header_decode(payload)} })

\* list[i][length_of_length(payload_length)..] of the item's own header
strip_header(item) ==
    The({ IF ~value_header.ok THEN Err("Decoder")
          ELSE Ok(SubSeq(item, length_of_length(value_header.payload_length) + 1,
                         Len(item)))
          : value_header \in {header_decode(item)} })

RECURSIVE decode_node(_), decode_children(_, _), decode_branch(_), decode_short(_)

\* for i in 0..nodes.len() { nodes[i] = decode_node(list[i])? }, from item i on
decode_children(list, i) ==
    IF i > 16 THEN Ok(<<>>)
    ELSE The({ IF ~n.ok THEN n
               ELSE The({ IF rest.ok THEN Ok(<<n.v>> \o rest.v) ELSE rest
                          : rest \in {decode_children(list, i + 1)} })
               : n \in {decode_node(list[i])} })

\* The arm of decode_node for a list of 17 items
decode_branch(list) ==
    The({ IF ~nodes.ok THEN nodes
          ELSE The({ IF ~value_rlp.ok THEN value_rlp
                     ELSE Ok(from_branch(nodes.v, IF value_rlp.v = <<>> THEN None
                                                  ELSE Some(value_rlp.v)))
                     : value_rlp \in {strip_header(list[17])} })
          : nodes \in {decode_children(list, 1)} })

\* The arm of decode_node for a list of 2 items
decode_short(list) ==
    The({ IF ~key_rlp.ok THEN key_rlp
          ELSE IF ~CompactOk(key_rlp.v) THEN Err("Panic")
          ELSE The({ The({ IF ~n.ok THEN n
                           ELSE IF is_leaf(key) THEN Ok(from_leaf(key, n.v))
                           ELSE Ok(from_extension(key, n.v))
                           : n \in {IF is_leaf(key) THEN strip_header(list[2])
                                    ELSE decode_node(list[2])} })
                     : key \in {from_compact(key_rlp.v)} })
          : key_rlp \in {strip_header(list[1])} })

decode_node(data) ==
    The({
        IF ~rlp_header.ok THEN Err("Decoder")
        ELSE IF rlp_header.list
        THEN The({ IF ~items.ok THEN items
                   ELSE CASE Len(items.v) = 17 -> decode_branch(items.v)
                          [] Len(items.v) = 2 -> decode_short(items.v)
                          [] OTHER -> Err("InvalidData")
                   : items \in {list_items(SubSeq(rlp_header.rest, 1,
                                                  rlp_header.payload_length))} })
        ELSE IF rlp_header.payload_length = HASHED_LENGTH
             THEN IF Len(rlp_header.rest) = HASHED_LENGTH
                  THEN Ok(from_hash(rlp_header.rest))
                  ELSE Err("Panic")
             ELSE IF rlp_header.payload_length = 0 THEN Ok(Empty)
             ELSE Err("InvalidData")
        : rlp_header \in {header_decode(data)} })

(***************************************************************************)
(* crate::db::MemoryDB (light): a map from 32-byte keys to byte strings    *)
(***************************************************************************)
db_get(db, key) == IF key \in DOMAIN db THEN Some(db[key]) ELSE None

\* insert_batch of the (hash, data) pairs of a cache
db_insert_batch(db, pairs) ==
    [k \in DOMAIN db \cup {p.hash : p \in pairs} |->
        IF \E p \in pairs : p.hash = k
        THEN (CHOOSE p \in pairs : p.hash = k).data
        ELSE db[k]]

db_remove_batch(db, keys) == [k \in DOMAIN db \ keys |-> db[k]]

db_remove(db, key) == db_remove_batch(db, {key})

(***************************************************************************)
(* TrieError                                                               *)
(***************************************************************************)
MissingTrieNode(node_hash, traversed, root_hash, err_key) ==
    [kind |-> "MissingTrieNode", node_hash |-> node_hash, traversed |-> traversed,
     root_hash |-> root_hash, err_key |-> err_key]

\* An entry point that passes the error on as it received it
with_err_key_unset(e, key) == e

\* The entry points replace err_key of a MissingTrieNode by the caller's key.
with_err_key(e, key) ==
    IF e.kind = "MissingTrieNode" THEN [e EXCEPT !.err_key = Some(key)] ELSE e

recover_from_db(db, key) ==
    IF key \notin DOMAIN db THEN Ok(None)
    ELSE The({ IF n.ok THEN Ok(Some(n.v)) ELSE Err([kind |-> n.err])
               : n \in {decode_node(db_get(db, key).v)} })

(***************************************************************************)
(* get_at                                                                  *)
(***************************************************************************)
\* get_at reporting a cursor that includes the nibble after the missing node
RECURSIVE get_at_cursor_past_node(_, _, _, _, _)
get_at_cursor_past_node(db, root_hash, source_node, path, path_index) ==
    LET partial == offset(path, path_index)
    IN  CASE source_node.t = "Empty" -> Ok(None)
          [] source_node.t = "Leaf" ->
                IF source_node.key = partial THEN Ok(Some(source_node.value)) ELSE Ok(None)
          [] source_node.t = "Branch" ->
                IF partial = <<>> \/ at(partial, 0) = 16 THEN Ok(source_node.value)
                ELSE get_at_cursor_past_node(db, root_hash, child(source_node, at(partial, 0)),
                            path, path_index + 1)
          [] source_node.t = "Extension" ->
                LET match_len == common_prefix(partial, source_node.prefix)
                IN  IF match_len = Len(source_node.prefix)
                    THEN get_at_cursor_past_node(db, root_hash, source_node.node, path, path_index + match_len)
                    ELSE Ok(None)
          [] source_node.t = "Hash" ->
                The({ IF ~r.ok THEN r
                      ELSE IF ~r.v.some
                      THEN Err(MissingTrieNode(source_node.hash,
                                               Some(slice(path, 0, path_index + 1)),
                                               Some(root_hash), None))
                      ELSE get_at_cursor_past_node(db, root_hash, r.v.v, path, path_index)
                      : r \in {recover_from_db(db, source_node.hash)} })

RECURSIVE get_at(_, _, _, _, _)
get_at(db, root_hash, source_node, path, path_index) ==
    LET partial == offset(path, path_index)
    IN  CASE source_node.t = "Empty" -> Ok(None)
          [] source_node.t = "Leaf" ->
                IF source_node.key = partial THEN Ok(Some(source_node.value)) ELSE Ok(None)
          [] source_node.t = "Branch" ->
                IF partial = <<>> \/ at(partial, 0) = 16 THEN Ok(source_node.value)
                ELSE get_at(db, root_hash, child(source_node, at(partial, 0)),
                            path, path_index + 1)
          [] source_node.t = "Extension" ->
                LET match_len == common_prefix(partial, source_node.prefix)
                IN  IF match_len = Len(source_node.prefix)
                    THEN get_at(db, root_hash, source_node.node, path, path_index + match_len)
                    ELSE Ok(None)
          [] source_node.t = "Hash" ->
                The({ IF ~r.ok THEN r
                      ELSE IF ~r.v.some
                      THEN Err(MissingTrieNode(source_node.hash,
                                               Some(slice(path, 0, path_index)),
                                               Some(root_hash), None))
                      ELSE get_at(db, root_hash, r.v.v, path, path_index)
                      : r \in {recover_from_db(db, source_node.hash)} })

(***************************************************************************)
(* insert_at.  The result carries passing: the hashes the call put into    *)
(* self.passing_keys, which stay there when the call fails.  A failing     *)
(* call has written nothing in place: every write to a branch or an        *)
(* extension follows the `?` of the recursive call.                        *)
(***************************************************************************)
InsOk(node, passing) == [ok |-> TRUE, v |-> node, passing |-> passing]

InsErr(e, passing) == [ok |-> FALSE, err |-> e, passing |-> passing]

\* insert_at with the leaf it splits off carrying the old leaf's value: the
\* trie then depends on the order of the inserts.
RECURSIVE insert_at_reuses_value(_, _, _, _, _, _)
insert_at_reuses_value(db, root_hash, n, path, path_index, value) ==
    LET partial == offset(path, path_index)
    IN  CASE n.t = "Empty" -> InsOk(from_leaf(partial, value), {})
          [] n.t = "Leaf" ->
                LET old_partial == n.key
                    match_index == common_prefix(partial, old_partial)
                IN  IF match_index = Len(old_partial)
                    THEN InsOk(from_leaf(n.key, value), {})
                    ELSE
                    LET b0 == from_branch(empty_children, None)
                        b1 == branch_insert(b0, at(old_partial, match_index),
                                  from_leaf(offset(old_partial, match_index + 1), n.value))
                        b2 == branch_insert(b1, at(partial, match_index),
                                  from_leaf(offset(partial, match_index + 1), n.value))
                    IN  IF match_index = 0 THEN InsOk(b2, {})
                        ELSE InsOk(from_extension(slice(partial, 0, match_index), b2), {})
          [] n.t = "Branch" ->
                IF at(partial, 0) = 16 THEN InsOk([n EXCEPT !.value = Some(value)], {})
                ELSE The({ IF ~new_child.ok THEN new_child
                           ELSE InsOk(set_child(n, at(partial, 0), new_child.v),
                                      new_child.passing)
                           : new_child \in {insert_at_reuses_value(db, root_hash,
                                                      child(n, at(partial, 0)),
                                                      path, path_index + 1, value)} })
          [] n.t = "Extension" ->
                LET prefix == n.prefix
                    sub_node == n.node
                    match_index == common_prefix(partial, prefix)
                IN  IF match_index = 0
                    THEN insert_at_reuses_value(db, root_hash,
                                   branch_insert(from_branch(empty_children, None),
                                       at(prefix, 0),
                                       IF Len(prefix) = 1 THEN sub_node
                                       ELSE from_extension(offset(prefix, 1), sub_node)),
                                   path, path_index, value)
                    ELSE IF match_index = Len(prefix)
                    THEN The({ IF ~new_node.ok THEN new_node
                               ELSE InsOk(from_extension(prefix, new_node.v),
                                          new_node.passing)
                               : new_node \in {insert_at_reuses_value(db, root_hash, sub_node, path,
                                                         path_index + match_index,
                                                         value)} })
                    ELSE The({ IF ~new_node.ok THEN new_node
                               ELSE InsOk(from_extension(slice(prefix, 0, match_index),
                                                         new_node.v),
                                          new_node.passing)
                               : new_node \in {insert_at_reuses_value(db, root_hash,
                                                   from_extension(offset(prefix, match_index),
                                                                  sub_node),
                                                   path, path_index + match_index,
                                                   value)} })
          [] n.t = "Hash" ->
                The({ IF ~r.ok THEN InsErr(r.err, {n.hash})
                      ELSE IF ~r.v.some
                      THEN InsErr(MissingTrieNode(n.hash, Some(slice(path, 0, path_index)),
                                                  Some(root_hash), None),
                                  {n.hash})
                      ELSE [insert_at_reuses_value(db, root_hash, r.v.v, path, path_index, value)
                                EXCEPT !.passing = @ \cup {n.hash}]
                      : r \in {recover_from_db(db, n.hash)} })

RECURSIVE insert_at(_, _, _, _, _, _)
insert_at(db, root_hash, n, path, path_index, value) ==
    LET partial == offset(path, path_index)
    IN  CASE n.t = "Empty" -> InsOk(from_leaf(partial, value), {})
          [] n.t = "Leaf" ->
                LET old_partial == n.key
                    match_index == common_prefix(partial, old_partial)
                IN  IF match_index = Len(old_partial)
                    THEN InsOk(from_leaf(n.key, value), {})
                    ELSE
                    LET b0 == from_branch(empty_children, None)
                        b1 == branch_insert(b0, at(old_partial, match_index),
                                  from_leaf(offset(old_partial, match_index + 1), n.value))
                        b2 == branch_insert(b1, at(partial, match_index),
                                  from_leaf(offset(partial, match_index + 1), value))
                    IN  IF match_index = 0 THEN InsOk(b2, {})
                        ELSE InsOk(from_extension(slice(partial, 0, match_index), b2), {})
          [] n.t = "Branch" ->
                IF at(partial, 0) = 16 THEN InsOk([n EXCEPT !.value = Some(value)], {})
                ELSE The({ IF ~new_child.ok THEN new_child
                           ELSE InsOk(set_child(n, at(partial, 0), new_child.v),
                                      new_child.passing)
                           : new_child \in {insert_at(db, root_hash,
                                                      child(n, at(partial, 0)),
                                                      path, path_index + 1, value)} })
          [] n.t = "Extension" ->
                LET prefix == n.prefix
                    sub_node == n.node
                    match_index == common_prefix(partial, prefix)
                IN  IF match_index = 0
                    THEN insert_at(db, root_hash,
                                   branch_insert(from_branch(empty_children, None),
                                       at(prefix, 0),
                                       IF Len(prefix) = 1 THEN sub_node
                                       ELSE from_extension(offset(prefix, 1), sub_node)),
                                   path, path_index, value)
                    ELSE IF match_index = Len(prefix)
                    THEN The({ IF ~new_node.ok THEN new_node
                               ELSE InsOk(from_extension(prefix, new_node.v),
                                          new_node.passing)
                               : new_node \in {insert_at(db, root_hash, sub_node, path,
                                                         path_index + match_index,
                                                         value)} })
                    ELSE The({ IF ~new_node.ok THEN new_node
                               ELSE InsOk(from_extension(slice(prefix, 0, match_index),
                                                         new_node.v),
                                          new_node.passing)
                               : new_node \in {insert_at(db, root_hash,
                                                   from_extension(offset(prefix, match_index),
                                                                  sub_node),
                                                   path, path_index + match_index,
                                                   value)} })
          [] n.t = "Hash" ->
                The({ IF ~r.ok THEN InsErr(r.err, {n.hash})
                      ELSE IF ~r.v.some
                      THEN InsErr(MissingTrieNode(n.hash, Some(slice(path, 0, path_index)),
                                                  Some(root_hash), None),
                                  {n.hash})
                      ELSE [insert_at(db, root_hash, r.v.v, path, path_index, value)
                                EXCEPT !.passing = @ \cup {n.hash}]
                      : r \in {recover_from_db(db, n.hash)} })

(***************************************************************************)
(* degenerate                                                              *)
(***************************************************************************)
used_indexs(branch) == {i \in 0..15 : child(branch, i).t # "Empty"}

\* degenerate without the arm that turns a branch holding nothing but a
\* value into a leaf
RECURSIVE degenerate_keeps_value_branch(_, _, _)
degenerate_keeps_value_branch(db, root_hash, n) ==
    CASE n.t = "Branch" ->
            LET used == used_indexs(n)
            IN  IF Cardinality(used) = 1 /\ ~n.value.some
                THEN The({ degenerate_keeps_value_branch(db, root_hash,
                                      from_extension(<<used_index>>, child(n, used_index)))
                           : used_index \in used })
                ELSE InsOk(n, {})
      [] n.t = "Extension" ->
            LET prefix == n.prefix
                sub == n.node
            IN  CASE sub.t = "Extension" ->
                        InsOk(from_extension(join(prefix, sub.prefix), sub.node), {})
                  [] sub.t = "Leaf" ->
                        InsOk(from_leaf(join(prefix, sub.key), sub.value), {})
                  [] sub.t = "Hash" ->
                        The({ IF ~r.ok THEN InsErr(r.err, {sub.hash})
                              ELSE IF ~r.v.some
                              THEN InsErr(MissingTrieNode(sub.hash, None,
                                                          Some(root_hash), None),
                                          {sub.hash})
                              ELSE [degenerate_keeps_value_branch(db, root_hash,
                                               from_extension(prefix, r.v.v))
                                        EXCEPT !.passing = @ \cup {sub.hash}]
                              : r \in {recover_from_db(db, sub.hash)} })
                  [] OTHER -> InsOk(n, {})
      [] OTHER -> InsOk(n, {})

RECURSIVE degenerate(_, _, _)
degenerate(db, root_hash, n) ==
    CASE n.t = "Branch" ->
            LET used == used_indexs(n)
            IN  IF used = {} /\ n.value.some
                THEN InsOk(from_leaf(from_raw(<<>>, TRUE), n.value.v), {})
                ELSE IF Cardinality(used) = 1 /\ ~n.value.some
                THEN The({ degenerate(db, root_hash,
                                      from_extension(<<used_index>>, child(n, used_index)))
                           : used_index \in used })
                ELSE InsOk(n, {})
      [] n.t = "Extension" ->
            LET prefix == n.prefix
                sub == n.node
            IN  CASE sub.t = "Extension" ->
                        InsOk(from_extension(join(prefix, sub.prefix), sub.node), {})
                  [] sub.t = "Leaf" ->
                        InsOk(from_leaf(join(prefix, sub.key), sub.value), {})
                  [] sub.t = "Hash" ->
                        The({ IF ~r.ok THEN InsErr(r.err, {sub.hash})
                              ELSE IF ~r.v.some
                              THEN InsErr(MissingTrieNode(sub.hash, None,
                                                          Some(root_hash), None),
                                          {sub.hash})
                              ELSE [degenerate(db, root_hash,
                                               from_extension(prefix, r.v.v))
                                        EXCEPT !.passing = @ \cup {sub.hash}]
                              : r \in {recover_from_db(db, sub.hash)} })
                  [] OTHER -> InsOk(n, {})
      [] OTHER -> InsOk(n, {})

(***************************************************************************)
(* delete_at.  old is the node the caller passed in as the call leaves it: *)
(* a branch or an extension is written in place (value = None,             *)
(* children[index] = new_child, node = new_node) before degenerate runs,   *)
(* and whoever else holds the same Arc sees those writes.                  *)
(***************************************************************************)
DelOk(node, deleted, old, passing) ==
    [ok |-> TRUE, node |-> node, deleted |-> deleted, old |-> old, passing |-> passing]

DelErr(e, old, passing) == [ok |-> FALSE, err |-> e, old |-> old, passing |-> passing]

\* delete_at returning the node it edited as it is, without degenerate
after_delete_without_degenerate(db, root_hash, new_node, passing) ==
    DelOk(new_node, TRUE, new_node, passing)

\* if deleted { Ok((self.degenerate(new_node)?, deleted)) }
after_delete(db, root_hash, new_node, passing) ==
    The({ IF d.ok THEN DelOk(d.v, TRUE, new_node, passing \cup d.passing)
          ELSE DelErr(d.err, new_node, passing \cup d.passing)
          : d \in {degenerate(db, root_hash, new_node)} })

\* What a branch (index in 0..15) or an extension (index = 16) does with the
\* result c of delete_at on its child.
with_child(old_node, index, n) ==
    IF index = 16 THEN [old_node EXCEPT !.node = n] ELSE set_child(old_node, index, n)

\* delete_below hydrating every child of a branch before it goes on
delete_below_hydrates_children(db, root_hash, old_node, index, c) ==
    IF /\ old_node.t = "Branch"
       /\ \E i \in 0..15 : /\ child(old_node, i).t = "Hash"
                           /\ child(old_node, i).hash \notin DOMAIN db
    THEN DelErr(MissingTrieNode(
                    child(old_node, CHOOSE i \in 0..15 :
                                        /\ child(old_node, i).t = "Hash"
                                        /\ child(old_node, i).hash \notin DOMAIN db).hash,
                    None, Some(root_hash), None),
                old_node, c.passing)
    ELSE IF ~c.ok THEN DelErr(c.err, with_child(old_node, index, c.old), c.passing)
    ELSE IF c.deleted
    THEN after_delete(db, root_hash, with_child(old_node, index, c.node), c.passing)
    ELSE DelOk(old_node, FALSE, old_node, c.passing)

delete_below(db, root_hash, old_node, index, c) ==
    IF ~c.ok THEN DelErr(c.err, with_child(old_node, index, c.old), c.passing)
    ELSE IF c.deleted
    THEN after_delete(db, root_hash, with_child(old_node, index, c.node), c.passing)
    ELSE DelOk(old_node, FALSE, old_node, c.passing)

\* delete_at with an extension that keeps whatever is left of its child,
\* without degenerate
RECURSIVE delete_at_keeps_extension(_, _, _, _, _)
delete_at_keeps_extension(db, root_hash, old_node, path, path_index) ==
    LET partial == offset(path, path_index)
    IN  CASE old_node.t = "Empty" -> DelOk(Empty, FALSE, old_node, {})
          [] old_node.t = "Leaf" ->
                IF old_node.key = partial THEN DelOk(Empty, TRUE, old_node, {})
                ELSE DelOk(old_node, FALSE, old_node, {})
          [] old_node.t = "Branch" ->
                IF at(partial, 0) = 16
                THEN after_delete(db, root_hash, [old_node EXCEPT !.value = None], {})
                ELSE delete_below(db, root_hash, old_node, at(partial, 0),
                                  delete_at_keeps_extension(db, root_hash,
                                            child(old_node, at(partial, 0)),
                                            path, path_index + 1))
          [] old_node.t = "Extension" ->
                IF common_prefix(partial, old_node.prefix) = Len(old_node.prefix)
                THEN The({ IF ~c.ok
                           THEN DelErr(c.err, with_child(old_node, 16, c.old), c.passing)
                           ELSE IF c.deleted
                           THEN DelOk(with_child(old_node, 16, c.node), TRUE,
                                      with_child(old_node, 16, c.node), c.passing)
                           ELSE DelOk(old_node, FALSE, old_node, c.passing)
                           : c \in {delete_at_keeps_extension(db, root_hash,
                                            old_node.node, path,
                                            path_index + Len(old_node.prefix))} })
                ELSE DelOk(old_node, FALSE, old_node, {})
          [] old_node.t = "Hash" ->
                The({ IF ~r.ok THEN DelErr(r.err, old_node, {old_node.hash})
                      ELSE IF ~r.v.some
                      THEN DelErr(MissingTrieNode(old_node.hash,
                                                  Some(slice(path, 0, path_index)),
                                                  Some(root_hash), None),
                                  old_node, {old_node.hash})
                      ELSE [delete_at_keeps_extension(db, root_hash, r.v.v, path,
                                                      path_index)
                                EXCEPT !.old = old_node,
                                       !.passing = @ \cup {old_node.hash}]
                      : r \in {recover_from_db(db, old_node.hash)} })

RECURSIVE delete_at(_, _, _, _, _)
delete_at(db, root_hash, old_node, path, path_index) ==
    LET partial == offset(path, path_index)
    IN  CASE old_node.t = "Empty" -> DelOk(Empty, FALSE, old_node, {})
          [] old_node.t = "Leaf" ->
                IF old_node.key = partial THEN DelOk(Empty, TRUE, old_node, {})
                ELSE DelOk(old_node, FALSE, old_node, {})
          [] old_node.t = "Branch" ->
                IF at(partial, 0) = 16
                THEN after_delete(db, root_hash, [old_node EXCEPT !.value = None], {})
                ELSE delete_below(db, root_hash, old_node, at(partial, 0),
                                  delete_at(db, root_hash, child(old_node, at(partial, 0)),
                                            path, path_index + 1))
          [] old_node.t = "Extension" ->
                IF common_prefix(partial, old_node.prefix) = Len(old_node.prefix)
                THEN delete_below(db, root_hash, old_node, 16,
                                  delete_at(db, root_hash, old_node.node, path,
                                            path_index + Len(old_node.prefix)))
                ELSE DelOk(old_node, FALSE, old_node, {})
          [] old_node.t = "Hash" ->
                The({ IF ~r.ok THEN DelErr(r.err, old_node, {old_node.hash})
                      ELSE IF ~r.v.some
                      THEN DelErr(MissingTrieNode(old_node.hash,
                                                  Some(slice(path, 0, path_index)),
                                                  Some(root_hash), None),
                                  old_node, {old_node.hash})
                      ELSE [delete_at(db, root_hash, r.v.v, path, path_index)
                                EXCEPT !.old = old_node,
                                       !.passing = @ \cup {old_node.hash}]
                      : r \in {recover_from_db(db, old_node.hash)} })

(***************************************************************************)
(* get_path_at: the nodes hydrated from the store along the key, deepest   *)
(* first                                                                   *)
(***************************************************************************)
RECURSIVE get_path_at(_, _, _, _, _)
get_path_at(db, root_hash, source_node, path, path_index) ==
    LET partial == offset(path, path_index)
    IN  CASE source_node.t \in {"Empty", "Leaf"} -> Ok(<<>>)
          [] source_node.t = "Branch" ->
                IF partial = <<>> \/ at(partial, 0) = 16 THEN Ok(<<>>)
                ELSE get_path_at(db, root_hash, child(source_node, at(partial, 0)),
                                 path, path_index + 1)
          [] source_node.t = "Extension" ->
                LET match_len == common_prefix(partial, source_node.prefix)
                IN  IF match_len = Len(source_node.prefix)
                    THEN get_path_at(db, root_hash, source_node.node, path,
                                     path_index + match_len)
                    ELSE Ok(<<>>)
          [] source_node.t = "Hash" ->
                The({ IF ~r.ok THEN r
                      ELSE IF ~r.v.some
                      THEN Err(MissingTrieNode(source_node.hash, None,
                                               Some(root_hash), None))
                      ELSE The({ IF ~rest.ok THEN rest ELSE Ok(Append(rest.v, r.v.v))
                                 : rest \in {get_path_at(db, root_hash, r.v.v,
                                                         path, path_index)} })
                      : r \in {recover_from_db(db, source_node.hash)} })

(***************************************************************************)
(* EthTrie: a trie is the record self of its fields; the store self.db is  *)
(* shared and is passed and returned next to it.                           *)
(***************************************************************************)
\* new() leaving root_hash at the zero hash
new_trie_zero_root_hash ==
    [root |-> Empty, root_hash |-> Repeat(Byte(0), HASHED_LENGTH),
     cache |-> {}, passing_keys |-> {}, gen_keys |-> {}]

new_trie ==
    [root |-> Empty, root_hash |-> KECCAK_NULL_RLP,
     cache |-> {}, passing_keys |-> {}, gen_keys |-> {}]

\* from reporting an entry that does not decode as a missing root
from_invalid_state_root(db, root) ==
    IF root \notin DOMAIN db THEN Err([kind |-> "InvalidStateRoot"])
    ELSE The({ IF ~n.ok THEN Err([kind |-> "InvalidStateRoot"])
               ELSE Ok([new_trie EXCEPT !.root = n.v, !.root_hash = root])
               : n \in {decode_node(db_get(db, root).v)} })

\* EthTrie::from(db, root)
from(db, root) ==
    IF root \notin DOMAIN db THEN Err([kind |-> "InvalidStateRoot"])
    ELSE The({ IF ~n.ok THEN Err([kind |-> n.err])
               ELSE Ok([new_trie EXCEPT !.root = n.v, !.root_hash = root])
               : n \in {decode_node(db_get(db, root).v)} })

get(self, db, key) ==
    The({ IF result.ok THEN result ELSE Err(with_err_key(result.err, key))
          : result \in {get_at(db, self.root_hash, self.root, from_raw(key, TRUE), 0)} })

contains(self, db, key) ==
    The({ IF result.ok THEN Ok(result.v.some) ELSE result
          : result \in {get_at(db, self.root_hash, self.root, from_raw(key, TRUE), 0)} })

\* remove: on an error self.root keeps pointing at the node it pointed at,
\* as delete_at left it.
remove(self, db, key) ==
    The({ IF result.ok
          THEN [self |-> [self EXCEPT !.root = result.node,
                                      !.passing_keys = @ \cup result.passing],
                result |-> Ok(result.deleted)]
          ELSE [self |-> [self EXCEPT !.root = result.old,
                                      !.passing_keys = @ \cup result.passing],
                result |-> Err(with_err_key(result.err, key))]
          : result \in {delete_at(db, self.root_hash, self.root,
                                  from_raw(key, TRUE), 0)} })

\* insert without the arm for a zero-length value
insert_stores_empty(self, db, key, value) ==
    The({ IF result.ok
          THEN [self |-> [self EXCEPT !.root = result.v,
                                      !.passing_keys = @ \cup result.passing],
                result |-> Ok(<<>>)]
          ELSE [self |-> [self EXCEPT !.passing_keys = @ \cup result.passing],
                result |-> Err(with_err_key(result.err, key))]
          : result \in {insert_at(db, self.root_hash, self.root,
                                  from_raw(key, TRUE), 0, value)} })

insert(self, db, key, value) ==
    IF value = <<>>
    THEN The({ [self |-> r.self, result |-> IF r.result.ok THEN Ok(<<>>) ELSE r.result]
               : r \in {remove(self, db, key)} })
    ELSE The({ IF result.ok
               THEN [self |-> [self EXCEPT !.root = result.v,
                                           !.passing_keys = @ \cup result.passing],
                     result |-> Ok(<<>>)]
               ELSE [self |-> [self EXCEPT !.passing_keys = @ \cup result.passing],
                     result |-> Err(with_err_key(result.err, key))]
               : result \in {insert_at(db, self.root_hash, self.root,
                                       from_raw(key, TRUE), 0, value)} })

\* commit(return_changed_nodes): the trie, the store and the RootWithTrieDiff.
\* w is what write_node returned for the root.  A root that cannot be read
\* back is the `?` or the panic of expect(), after the fields were reset.
\* commit leaving a root that write_node returned inline out of the cache
commit_cache_without_inline_root(self, w, root_hash) ==
    self.cache \cup w.wrote

commit_cache(self, w, root_hash) ==
    self.cache \cup w.wrote
        \cup (IF w.enc.hash THEN {} ELSE {[hash |-> root_hash, data |-> w.enc.data]})

commit_db(self, db, w, root_hash) ==
    db_remove_batch(db_insert_batch(db, commit_cache(self, w, root_hash)),
                    {h \in self.passing_keys :
                        h \notin self.gen_keys \cup {p.hash : p \in w.wrote}})

\* commit taking the snapshot for trie_diff before the root is written
commit_written_snapshot_before_root(self, db, return_changed_nodes, w, root_hash) ==
    The({ The({
          [self |-> [root |-> IF root.ok /\ root.v.some THEN root.v.v ELSE self.root,
                     root_hash |-> root_hash,
                     cache |-> {}, passing_keys |-> {}, gen_keys |-> {}],
           db |-> db2,
           result |-> IF ~root.ok THEN root
                      ELSE IF ~root.v.some THEN Err([kind |-> "Panic"])
                      ELSE Ok([root |-> root_hash,
                               trie_diff |-> IF return_changed_nodes
                                             THEN self.cache
                                             ELSE {}])]
          : root \in {recover_from_db(db2, root_hash)} })
          : db2 \in {commit_db(self, db, w, root_hash)} })

commit_written(self, db, return_changed_nodes, w, root_hash) ==
    The({ The({
          [self |-> [root |-> IF root.ok /\ root.v.some THEN root.v.v ELSE self.root,
                     root_hash |-> root_hash,
                     cache |-> {}, passing_keys |-> {}, gen_keys |-> {}],
           db |-> db2,
           result |-> IF ~root.ok THEN root
                      ELSE IF ~root.v.some THEN Err([kind |-> "Panic"])
                      ELSE Ok([root |-> root_hash,
                               trie_diff |-> IF return_changed_nodes
                                             THEN commit_cache(self, w, root_hash)
                                             ELSE {}])]
          : root \in {recover_from_db(db2, root_hash)} })
          : db2 \in {commit_db(self, db, w, root_hash)} })

commit(self, db, return_changed_nodes) ==
    The({ commit_written(self, db, return_changed_nodes, w,
                         IF w.enc.hash THEN w.enc.h ELSE Keccak(w.enc.data))
          : w \in {write_node(self.root)} })

\* commit over a store whose insert_batch or remove_batch (failing) returns an
\* error: the `?` returns Err(TrieError::DB) after write_node filled gen_keys
\* and the cache was drained, before root_hash, gen_keys, passing_keys and
\* root are assigned.  The failed call leaves the store as it found it.
StoreCalls == {"insert_batch", "remove_batch"}

commit_store_err(self, db, return_changed_nodes, failing) ==
    The({ [self |-> [self EXCEPT !.cache = {},
                                 !.gen_keys = @ \cup {p.hash : p \in w.wrote}],
           db |-> IF failing = "insert_batch" THEN db
                  ELSE db_insert_batch(db,
                           commit_cache(self, w, IF w.enc.hash THEN w.enc.h
                                                 ELSE Keccak(w.enc.data))),
           result |-> Err([kind |-> "DB"])]
          : w \in {write_node(self.root)} })

\* The hashes that the loop of clear_trie_from_db pushes for a decoded node:
\* the Hash child of an extension, the Hash children of a branch in order.
hash_children(n) ==
    CASE n.t = "Extension" -> IF n.node.t = "Hash" THEN <<n.node.hash>> ELSE <<>>
      [] n.t = "Branch" ->
            [i \in 1..Len(SelectSeq(n.children, LAMBDA c : c.t = "Hash")) |->
                SelectSeq(n.children, LAMBDA c : c.t = "Hash")[i].hash]
      [] OTHER -> <<>>

\* while let Some(node_key) = stack.pop(): the store it leaves, and whether
\* it came to its end.  expect() panics on a key the store does not hold and
\* on an entry that does not decode.
RECURSIVE clear_stack(_, _)
clear_stack(db, stack) ==
    IF stack = <<>> THEN [db |-> db, ok |-> TRUE]
    ELSE IF stack[Len(stack)] \notin DOMAIN db THEN [db |-> db, ok |-> FALSE]
    ELSE The({ IF ~decoded_node.ok
               THEN [db |-> db_remove(db, stack[Len(stack)]), ok |-> FALSE]
               ELSE clear_stack(db_remove(db, stack[Len(stack)]),
                                SubSeq(stack, 1, Len(stack) - 1)
                                    \o hash_children(decoded_node.v))
               : decoded_node \in {decode_node(db[stack[Len(stack)]])} })

\* clear_trie_from_db: the trie, the store and the result.  A panic leaves
\* the fields as they were and the store as far as the loop came.
clear_trie_from_db(self, db) ==
    The({ IF c.ok THEN [self |-> new_trie, db |-> c.db, result |-> Ok(<<>>)]
          ELSE [self |-> self, db |-> c.db, result |-> Err([kind |-> "Panic"])]
          : c \in {clear_stack(db, <<self.root_hash>>)} })

\* map(|n| self.encode_raw(&n)) over the reversed path, from element i on
RECURSIVE encode_path(_, _)
encode_path(path, i) ==
    IF i < 1 THEN [data |-> <<>>, wrote |-> {}]
    ELSE The({ [data |-> <<e.data>> \o rest.data, wrote |-> e.wrote \cup rest.wrote]
               : e \in {encode_raw(path[i])}, rest \in {encode_path(path, i - 1)} })

get_proof(self, db, key) ==
    The({ IF ~result.ok THEN [self |-> self, result |-> Err(with_err_key(result.err, key))]
          ELSE The({ [self |-> [self EXCEPT !.cache = @ \cup enc.wrote,
                                            !.gen_keys = @ \cup {p.hash : p \in enc.wrote}],
                      result |-> Ok(enc.data)]
                     : enc \in {encode_path(IF self.root.t = "Empty" THEN result.v
                                            ELSE Append(result.v, self.root),
                                            Len(result.v)
                                              + (IF self.root.t = "Empty" THEN 0 ELSE 1))} })
          : result \in {get_path_at(db, self.root_hash, self.root,
                                    from_raw(key, TRUE), 0)} })

\* The scratch store of verify_proof taking the first element for the root
\* node, whatever its hash
proof_db_trusts_first(root_hash, proof) ==
    LET kept == {i \in 1..Len(proof) :
                    Keccak(proof[i]) = root_hash \/ Len(proof[i]) >= HASHED_LENGTH}
    IN  [h \in {Keccak(proof[i]) : i \in kept}
                  \cup (IF proof = <<>> THEN {} ELSE {root_hash}) |->
            IF h = root_hash /\ proof # <<>> THEN proof[1] ELSE h[1].keccak]

\* The scratch store of verify_proof: the elements whose hash is root_hash or
\* whose length is at least HASHED_LENGTH, under their hashes.
proof_db(root_hash, proof) ==
    LET kept == {i \in 1..Len(proof) :
                    Keccak(proof[i]) = root_hash \/ Len(proof[i]) >= HASHED_LENGTH}
    IN  [h \in {Keccak(proof[i]) : i \in kept} |-> h[1].keccak]

\* verify_proof passing on the error of get as it received it
verify_proof_passes_error(root_hash, key, proof) ==
    The({ IF ~trie.ok THEN Err([kind |-> "InvalidProof"])
          ELSE get(trie.v, proof_db(root_hash, proof), key)
          : trie \in {from(proof_db(root_hash, proof), root_hash)} })

\* or(Err(InvalidProof)) replaces an Err that from or get returned; a panic
\* of decode_node is not a value that comes back, and goes through.
verify_proof(root_hash, key, proof) ==
    The({ IF ~trie.ok
          THEN IF trie.err.kind = "Panic" THEN trie ELSE Err([kind |-> "InvalidProof"])
          ELSE The({ IF r.ok THEN r
                     ELSE IF r.err.kind = "Panic" THEN r
                     ELSE Err([kind |-> "InvalidProof"])
                     : r \in {get(trie.v, proof_db(root_hash, proof), key)} })
          : trie \in {from(proof_db(root_hash, proof), root_hash)} })

(***************************************************************************)
(* TrieIterator: nibble is the running path, nodes the stack of TraceNode  *)
(***************************************************************************)
Start == [s |-> "Start"]

Doing == [s |-> "Doing"]

Child(i) == [s |-> "Child", i |-> i]

End == [s |-> "End"]

TraceNode(node) == [node |-> node, status |-> Start]

\* advance leaving a Hash node in Doing
advance_keeps_hash_doing(tn) ==
    [tn EXCEPT !.status =
        CASE tn.status.s = "Start" -> Doing
          [] tn.status.s = "Doing" ->
                IF tn.node.t = "Branch" THEN Child(0)
                ELSE IF tn.node.t = "Hash" THEN Doing ELSE End
          [] tn.status.s = "Child" /\ tn.status.i < 15 -> Child(tn.status.i + 1)
          [] OTHER -> End]

advance(tn) ==
    [tn EXCEPT !.status =
        CASE tn.status.s = "Start" -> Doing
          [] tn.status.s = "Doing" -> IF tn.node.t = "Branch" THEN Child(0) ELSE End
          [] tn.status.s = "Child" /\ tn.status.i < 15 -> Child(tn.status.i + 1)
          [] OTHER -> End]

iter(self) == [nibble |-> from_raw(<<>>, FALSE), nodes |-> <<TraceNode(self.root)>>]

pop(seq) == SubSeq(seq, 1, Len(seq) - 1)

truncate(seq, len) == SubSeq(seq, 1, len)

\* next leaving the nibble of a branch on the path when the branch ends
RECURSIVE next_branch_end_keeps_nibble(_, _, _)
next_branch_end_keeps_nibble(db, root_hash, it) ==
    IF it.nodes = <<>> THEN [it |-> it, item |-> None]
    ELSE
    LET now      == it.nodes[Len(it.nodes)]
        nodes    == [it.nodes EXCEPT ![Len(it.nodes)] = advance(now)]
        node     == now.node
        status   == now.status
        cur_len  == Len(it.nibble)
    IN  CASE status.s = "End" ->
                LET nibble == CASE node.t = "Leaf" -> truncate(it.nibble, cur_len - Len(node.key))
                                [] node.t = "Extension" ->
                                       truncate(it.nibble, cur_len - Len(node.prefix))
                                [] node.t = "Branch" -> it.nibble
                                [] OTHER -> it.nibble
                IN  next_branch_end_keeps_nibble(db, root_hash, [nibble |-> nibble, nodes |-> pop(nodes)])
          [] status.s = "Doing" /\ node.t = "Extension" ->
                next_branch_end_keeps_nibble(db, root_hash, [nibble |-> it.nibble \o node.prefix,
                                     nodes |-> Append(nodes, TraceNode(node.node))])
          [] status.s = "Doing" /\ node.t = "Leaf" ->
                LET nibble == it.nibble \o node.key
                IN  [it |-> [nibble |-> nibble, nodes |-> nodes],
                     item |-> Some(Ok(<<nibbles_encode_raw(nibble), node.value>>))]
          [] status.s = "Doing" /\ node.t = "Branch" ->
                IF node.value.some
                THEN [it |-> [nibble |-> it.nibble, nodes |-> nodes],
                      item |-> Some(Ok(<<nibbles_encode_raw(it.nibble), node.value.v>>))]
                ELSE next_branch_end_keeps_nibble(db, root_hash, [nibble |-> it.nibble, nodes |-> nodes])
          [] status.s = "Doing" /\ node.t = "Hash" ->
                The({ IF ~r.ok
                      THEN [it |-> [nibble |-> it.nibble, nodes |-> nodes], item |-> Some(r)]
                      ELSE IF ~r.v.some
                      THEN [it |-> [nibble |-> it.nibble, nodes |-> nodes],
                            item |-> Some(Err(MissingTrieNode(node.hash, Some(it.nibble),
                                                              Some(root_hash), None)))]
                      ELSE next_branch_end_keeps_nibble(db, root_hash,
                                [nibble |-> it.nibble,
                                 nodes |-> Append(pop(nodes), TraceNode(r.v.v))])
                      : r \in {recover_from_db(db, node.hash)} })
          [] status.s = "Child" /\ node.t = "Branch" ->
                LET nibble == IF status.i = 0 THEN Append(it.nibble, 0)
                              ELSE Append(pop(it.nibble), status.i)
                IN  next_branch_end_keeps_nibble(db, root_hash,
                         [nibble |-> nibble,
                          nodes |-> Append(nodes, TraceNode(child(node, status.i)))])
          [] status.s # "End" /\ node.t = "Empty" ->
                next_branch_end_keeps_nibble(db, root_hash, [nibble |-> it.nibble, nodes |-> pop(nodes)])
          [] OTHER -> next_branch_end_keeps_nibble(db, root_hash, [nibble |-> it.nibble, nodes |-> nodes])

\* TrieIterator::next: the iterator after the call and the item returned
\* (None at the end).  The loop runs until an arm returns.
RECURSIVE next(_, _, _)
next(db, root_hash, it) ==
    IF it.nodes = <<>> THEN [it |-> it, item |-> None]
    ELSE
    LET now      == it.nodes[Len(it.nodes)]
        nodes    == [it.nodes EXCEPT ![Len(it.nodes)] = advance(now)]
        node     == now.node
        status   == now.status
        cur_len  == Len(it.nibble)
    IN  CASE status.s = "End" ->
                LET nibble == CASE node.t = "Leaf" -> truncate(it.nibble, cur_len - Len(node.key))
                                [] node.t = "Extension" ->
                                       truncate(it.nibble, cur_len - Len(node.prefix))
                                [] node.t = "Branch" -> pop(it.nibble)
                                [] OTHER -> it.nibble
                IN  next(db, root_hash, [nibble |-> nibble, nodes |-> pop(nodes)])
          [] status.s = "Doing" /\ node.t = "Extension" ->
                next(db, root_hash, [nibble |-> it.nibble \o node.prefix,
                                     nodes |-> Append(nodes, TraceNode(node.node))])
          [] status.s = "Doing" /\ node.t = "Leaf" ->
                LET nibble == it.nibble \o node.key
                IN  [it |-> [nibble |-> nibble, nodes |-> nodes],
                     item |-> Some(Ok(<<nibbles_encode_raw(nibble), node.value>>))]
          [] status.s = "Doing" /\ node.t = "Branch" ->
                IF node.value.some
                THEN [it |-> [nibble |-> it.nibble, nodes |-> nodes],
                      item |-> Some(Ok(<<nibbles_encode_raw(it.nibble), node.value.v>>))]
                ELSE next(db, root_hash, [nibble |-> it.nibble, nodes |-> nodes])
          [] status.s = "Doing" /\ node.t = "Hash" ->
                The({ IF ~r.ok
                      THEN [it |-> [nibble |-> it.nibble, nodes |-> nodes], item |-> Some(r)]
                      ELSE IF ~r.v.some
                      THEN [it |-> [nibble |-> it.nibble, nodes |-> nodes],
                            item |-> Some(Err(MissingTrieNode(node.hash, Some(it.nibble),
                                                              Some(root_hash), None)))]
                      ELSE next(db, root_hash,
                                [nibble |-> it.nibble,
                                 nodes |-> Append(pop(nodes), TraceNode(r.v.v))])
                      : r \in {recover_from_db(db, node.hash)} })
          [] status.s = "Child" /\ node.t = "Branch" ->
                LET nibble == IF status.i = 0 THEN Append(it.nibble, 0)
                              ELSE Append(pop(it.nibble), status.i)
                IN  next(db, root_hash,
                         [nibble |-> nibble,
                          nodes |-> Append(nodes, TraceNode(child(node, status.i)))])
          [] status.s # "End" /\ node.t = "Empty" ->
                next(db, root_hash, [nibble |-> it.nibble, nodes |-> pop(nodes)])
          [] OTHER -> next(db, root_hash, [nibble |-> it.nibble, nodes |-> nodes])

\* for item in trie.iter(): the items of at most fuel calls of next, and
\* whether the last call returned None.
RECURSIVE collect(_, _, _, _)
collect(db, root_hash, it, fuel) ==
    IF fuel = 0 THEN [items |-> <<>>, done |-> FALSE]
    ELSE The({ IF ~n.item.some THEN [items |-> <<>>, done |-> TRUE]
               ELSE The({ [items |-> <<n.item.v>> \o rest.items, done |-> rest.done]
                          : rest \in {collect(db, root_hash, n.it, fuel - 1)} })
               : n \in {next(db, root_hash, it)} })

\* The hashes of the Hash nodes reachable from n through the store d
RECURSIVE reachable(_, _)
reachable(d, n) ==
    CASE n.t = "Hash" ->
            {n.hash} \cup The({ IF r.ok /\ r.v.some THEN reachable(d, r.v.v) ELSE {}
                                : r \in {recover_from_db(d, n.hash)} })
      [] n.t = "Extension" -> reachable(d, n.node)
      [] n.t = "Branch" -> UNION {reachable(d, child(n, i)) : i \in 0..15}
      [] OTHER -> {}

(***************************************************************************)
(* The state machine: one EthTrie created by new() over a MemoryDB, driven  *)
(* through insert, remove, root_hash and get_proof.  get, contains,        *)
(* verify_proof and iter read the state only and are operators of it.      *)
(* Under Spec nobody else touches the store.  Under SpecShared a second    *)
(* instance is opened over it with from(); under SpecFault a caller        *)
(* removes an entry of the store directly.                                 *)
(***************************************************************************)
VARIABLES
    root, root_hash, cache, passing_keys, gen_keys,  \* the fields of the EthTrie
    db,          \* the store behind self.db
    model,       \* per key, the value the caller last inserted (None once removed)
    fresh,       \* only inserts of new keys so far, and no commit
    committed,   \* the last call that changed the trie was a successful root_hash
    removed,     \* the keys whose latest edit is a remove that returned Ok
    all_ok,      \* every call so far returned Ok
    nops,        \* the number of calls made
    other,       \* the fields of a second EthTrie over the same store
    other_view,  \* per key, what get returned on other when it was opened
    lost         \* the entries a caller removed from the store directly

vars ==
    <<root, root_hash, cache, passing_keys, gen_keys, db,
      model, fresh, committed, removed, all_ok, nops, other, other_view, lost>>

\* Bounds of the model
NumKeys == 3

NumVals == 2

MaxOps == 5

\* Keys 0x11, 0x1130, 0x1140 (one a prefix of the others), 0x21, 0x1131
KeyList ==
    <<Bytes(<<17>>), Bytes(<<17, 48>>), Bytes(<<17, 64>>), Bytes(<<33>>), Bytes(<<17, 49>>)>>

\* Values: 32 bytes (a leaf holding it is stored by hash), the single byte
\* 0x80, the single byte 0x05, two bytes
ValList ==
    <<Repeat(Byte(65), 32), Bytes(<<128>>), Bytes(<<5>>), Bytes(<<1, 2>>)>>

Keys == {KeyList[i] : i \in 1..Min(NumKeys, Len(KeyList))}

Vals == {ValList[i] : i \in 1..Min(NumVals, Len(ValList))}

EmptyDb == [k \in {} |-> <<>>]

Self ==
    [root |-> root, root_hash |-> root_hash, cache |-> cache,
     passing_keys |-> passing_keys, gen_keys |-> gen_keys]

SetSelf(self) ==
    /\ root' = self.root
    /\ root_hash' = self.root_hash
    /\ cache' = self.cache
    /\ passing_keys' = self.passing_keys
    /\ gen_keys' = self.gen_keys

Init ==
    /\ root = new_trie.root
    /\ root_hash = new_trie.root_hash
    /\ cache = new_trie.cache
    /\ passing_keys = new_trie.passing_keys
    /\ gen_keys = new_trie.gen_keys
    /\ db = EmptyDb
    /\ model = [k \in Keys |-> None]
    /\ fresh = TRUE
    /\ committed = FALSE
    /\ removed = {}
    /\ all_ok = TRUE
    /\ nops = 0
    /\ other = new_trie
    /\ other_view = [k \in Keys |-> Ok(None)]
    /\ lost = EmptyDb

\* insert(k, v); a zero-length v is the caller asking for a removal.
Insert(k, v) ==
    /\ nops < MaxOps
    /\ \E r \in {insert(Self, db, k, v)} :
           /\ SetSelf(r.self)
           /\ model' = IF ~r.result.ok THEN model
                       ELSE [model EXCEPT ![k] = IF v = <<>> THEN None ELSE Some(v)]
           /\ fresh' = (fresh /\ r.result.ok /\ ~model[k].some /\ v # <<>>)
           /\ removed' = IF ~r.result.ok THEN removed
                         ELSE IF v = <<>> THEN removed \cup {k} ELSE removed \ {k}
           /\ all_ok' = (all_ok /\ r.result.ok)
    /\ committed' = FALSE
    /\ nops' = nops + 1
    /\ UNCHANGED <<db, other, other_view, lost>>

Remove(k) ==
    /\ nops < MaxOps
    /\ \E r \in {remove(Self, db, k)} :
           /\ SetSelf(r.self)
           /\ model' = IF r.result.ok THEN [model EXCEPT ![k] = None] ELSE model
           /\ removed' = IF r.result.ok THEN removed \cup {k} ELSE removed
           /\ all_ok' = (all_ok /\ r.result.ok)
    /\ fresh' = FALSE
    /\ committed' = FALSE
    /\ nops' = nops + 1
    /\ UNCHANGED <<db, other, other_view, lost>>

\* root_hash(): commit(false).  A commit that panics ends the program; one
\* that returns an error has reset the fields and written the store.
RootHash ==
    /\ nops < MaxOps
    /\ \E r \in {commit(Self, db, FALSE)} :
           /\ IF r.result.ok THEN TRUE ELSE r.result.err.kind # "Panic"
           /\ SetSelf(r.self)
           /\ db' = r.db
           /\ committed' = r.result.ok
           /\ all_ok' = (all_ok /\ r.result.ok)
    /\ fresh' = FALSE
    /\ nops' = nops + 1
    /\ UNCHANGED <<model, removed, other, other_view, lost>>

GetProof(k) ==
    /\ nops < MaxOps
    /\ \E r \in {get_proof(Self, db, k)} :
           /\ SetSelf(r.self)
           /\ all_ok' = (all_ok /\ r.result.ok)
    /\ nops' = nops + 1
    /\ UNCHANGED <<db, model, fresh, committed, removed, other, other_view, lost>>

Next ==
    \/ \E k \in Keys, v \in Vals : Insert(k, v)
    \/ \E k \in Keys : Remove(k)
    \/ RootHash
    \/ \E k \in Keys : GetProof(k)

Spec == Init /\ [][Next]_vars

\* A caller who edits the trie through insert alone, passing a zero-length
\* value to take a key out, and commits with root_hash.
MaxEmptyOps == 4

NextEmpty ==
    \/ \E k \in Keys, v \in Vals \cup {<<>>} : nops < MaxEmptyOps /\ Insert(k, v)
    \/ nops < MaxEmptyOps /\ RootHash

SpecEmpty == Init /\ [][NextEmpty]_vars

\* A caller holding the store removes from it the entry of a node that the
\* committed trie references (corruptor_db.remove(node_hash_to_delete)).
DbRemove(h) ==
    /\ nops < MaxOps
    /\ committed
    /\ lost = EmptyDb
    /\ h \in DOMAIN db
    /\ h \in reachable(db, root)
    /\ db' = db_remove(db, h)
    /\ lost' = [x \in {h} |-> db[h]]
    /\ nops' = nops + 1
    /\ UNCHANGED <<root, root_hash, cache, passing_keys, gen_keys,
                   model, fresh, committed, removed, all_ok, other, other_view>>

\* The calls of corrupt_trie: the trie is built with insert and committed
\* with root_hash, and an entry is removed from the store behind its back.
NextFault ==
    \/ \E k \in Keys, v \in Vals : Insert(k, v)
    \/ RootHash
    \/ \E h \in DOMAIN db : DbRemove(h)

SpecFault == Init /\ [][NextFault]_vars

\* A caller who builds a trie, commits it and loses an entry of the store,
\* for up to MaxIterOps calls, and then iterates over the trie.
MaxIterOps == 4

NextIter ==
    \/ \E k \in Keys, v \in Vals : nops < MaxIterOps /\ Insert(k, v)
    \/ nops < MaxIterOps /\ RootHash
    \/ \E h \in DOMAIN db : nops < MaxIterOps /\ DbRemove(h)

SpecIter == Init /\ [][NextIter]_vars

\* A caller who received a root hash from root_hash() opens a second trie at
\* it over the same store (EthTrie::from(memdb, new_root_hash)).  Until then
\* the second trie is the one of Init: EthTrie::new(memdb), at the empty root.
Open ==
    /\ committed
    /\ \E t \in {from(db, root_hash)} :
           /\ t.ok
           /\ other' = t.v
           /\ other_view' = [k \in Keys |-> get(t.v, db, k)]
    /\ UNCHANGED <<root, root_hash, cache, passing_keys, gen_keys, db,
                   model, fresh, committed, removed, all_ok, nops, lost>>

NextShared ==
    \/ Next
    \/ Open

SpecShared == Init /\ [][NextShared]_vars

\* clear_trie_from_db().  A call that panics ends the program.
ClearTrie ==
    /\ nops < MaxOps
    /\ \E c \in {clear_trie_from_db(Self, db)} :
           /\ c.result.ok
           /\ SetSelf(c.self)
           /\ db' = c.db
    /\ model' = [k \in Keys |-> None]
    /\ fresh' = FALSE
    /\ committed' = FALSE
    /\ removed' = {}
    /\ nops' = nops + 1
    /\ UNCHANGED <<all_ok, other, other_view, lost>>

NextClear ==
    \/ Next
    \/ ClearTrie

SpecClear == Init /\ [][NextClear]_vars

\* A caller who edits and commits: insert, remove and root_hash, for up to
\* MaxEditOps calls.
MaxEditOps == 4

NextEdit ==
    \/ \E k \in Keys, v \in Vals : nops < MaxEditOps /\ Insert(k, v)
    \/ \E k \in Keys : nops < MaxEditOps /\ Remove(k)
    \/ nops < MaxEditOps /\ RootHash

SpecEdit == Init /\ [][NextEdit]_vars

\* A caller who edits and commits the keys 0x11, 0x1130 and 0x21, for up to
\* MaxCanonOps calls: the root is a branch over an extension over a branch
\* that holds a value, so that a remove leaves a branch with one child, a
\* branch with nothing but its value, an extension over an extension and an
\* extension over a leaf, in memory and behind a Hash.  The caller's record
\* of the keys of Keys (model, fresh, removed) is not kept here.
MaxCanonOps == 5

CanonKeys == {KeyList[1], KeyList[2], KeyList[4]}

CanonInsert(k, v) ==
    /\ nops < MaxCanonOps
    /\ \E r \in {insert(Self, db, k, v)} :
           /\ SetSelf(r.self)
           /\ all_ok' = (all_ok /\ r.result.ok)
    /\ fresh' = FALSE
    /\ committed' = FALSE
    /\ nops' = nops + 1
    /\ UNCHANGED <<db, model, removed, other, other_view, lost>>

CanonRemove(k) ==
    /\ nops < MaxCanonOps
    /\ \E r \in {remove(Self, db, k)} :
           /\ SetSelf(r.self)
           /\ all_ok' = (all_ok /\ r.result.ok)
    /\ fresh' = FALSE
    /\ committed' = FALSE
    /\ nops' = nops + 1
    /\ UNCHANGED <<db, model, removed, other, other_view, lost>>

NextCanon ==
    \/ \E k \in CanonKeys, v \in Vals : CanonInsert(k, v)
    \/ \E k \in CanonKeys : CanonRemove(k)
    \/ nops < MaxCanonOps /\ RootHash

SpecCanon == Init /\ [][NextCanon]_vars

\* The caller of SpecCanon building and committing a trie whose root is a
\* branch held in memory, and losing an entry of the store that the trie
\* references, for up to MaxCanonOps calls.
NextCanonFault ==
    \/ \E k \in CanonKeys, v \in Vals : CanonInsert(k, v)
    \/ nops < MaxCanonOps /\ RootHash
    \/ \E h \in DOMAIN db : nops < MaxCanonOps /\ DbRemove(h)

SpecCanonFault == Init /\ [][NextCanonFault]_vars

\* A builder of tries: insert and root_hash, for up to MaxProofOps calls.
\* The proofs handed to verify_proof are taken from the tries it builds.
MaxProofOps == 3

NextProof ==
    \/ \E k \in Keys, v \in Vals : nops < MaxProofOps /\ Insert(k, v)
    \/ nops < MaxProofOps /\ RootHash

SpecProof == Init /\ [][NextProof]_vars

(***************************************************************************)
(* What the properties below read from a state                             *)
(***************************************************************************)
Stored == {k \in Keys : model[k].some}

\* A second trie over its own empty store that receives the pairs of m
\* through insert, in the order of KeyList.
RECURSIVE insert_all(_, _, _)
insert_all(self, m, i) ==
    IF i > Len(KeyList) THEN self
    ELSE insert_all(IF KeyList[i] \in DOMAIN m /\ m[KeyList[i]].some
                    THEN insert(self, EmptyDb, KeyList[i], m[KeyList[i]].v).self
                    ELSE self,
                    m, i + 1)

\* What root_hash() returns on that second trie
reference_root(m) == commit(insert_all(new_trie, m, 1), EmptyDb, FALSE).result

\* Every Hash node reachable from n is in the store d and decodes.
RECURSIVE resolves(_, _)
resolves(d, n) ==
    CASE n.t = "Hash" -> \A r \in {recover_from_db(d, n.hash)} :
                            r.ok /\ r.v.some /\ resolves(d, r.v.v)
      [] n.t = "Extension" -> resolves(d, n.node)
      [] n.t = "Branch" -> \A i \in 0..15 : resolves(d, child(n, i))
      [] OTHER -> TRUE

\* The RLP item of hash h occurs in the encoding enc: enc references h.
references(enc, h) ==
    \E o \in 1..Len(enc) :
        o + HASHED_LENGTH <= Len(enc) /\ SubSeq(enc, o, o + HASHED_LENGTH) = encode_bytes(h)

\* The calls of next a for loop over iter() may make before it is cut off
MaxItems == 8

items_of(c) == {c.items[i] : i \in 1..Len(c.items)}

\* The loop over it ended and yielded each stored pair once and nothing else.
yields_stored(c) ==
    /\ c.done
    /\ items_of(c) = {Ok(<<k, model[k].v>>) : k \in Stored}
    /\ Len(c.items) = Cardinality(Stored)

(***************************************************************************)
(* The properties                                                          *)
(***************************************************************************)
\* C1: round trip.  A key whose latest edit is an insert(k, v) that returned
\* Ok reads back Some(v), whatever root_hash() commits followed.
RoundTrip ==
    \A k \in Stored : get(Self, db, k) = Ok(Some(model[k].v))

\* C2: deterministic root.  A trie that received a set of pairs through
\* insert alone, in whatever order, returns from root_hash() what a second
\* trie over its own empty store returns after receiving the same pairs in
\* the order of KeyList.
DeterministicRoot ==
    fresh => \A r \in {commit(Self, db, FALSE)} :
                r.result.ok /\ r.result = reference_root(model)

\* Three pairs went in, so that the trie is an extension over a branch that
\* holds a value and two leaves, and the two tries agree on the root.
DeterministicRootWitness ==
    /\ fresh
    /\ Cardinality(Stored) >= 3
    /\ root.t = "Extension"
    /\ commit(Self, db, FALSE).result = reference_root(model)

\* C3: history independence.  In every state root_hash() returns the root
\* hash of the current key->value mapping, however the state was reached.
HistoryIndependence ==
    \A r \in {commit(Self, db, FALSE)} :
        r.result.ok /\ r.result.v.root = reference_root(model).v.root

\* C4: remove(k) returns Ok(true) exactly when get(k) found a value just
\* before the call.
RemoveReportsDeletion ==
    \A k \in Keys :
        \A r \in {remove(Self, db, k)}, g \in {get(Self, db, k)} :
            (r.result.ok /\ g.ok) => (r.result.v <=> g.v.some)

\* C5: a key whose latest edit is a remove that returned Ok reads None and
\* is not contained, whatever root_hash() commits followed.
RemovedStaysAbsent ==
    \A k \in removed :
        get(Self, db, k) = Ok(None) /\ contains(Self, db, k) = Ok(FALSE)

\* C6: proof soundness.  On a committed trie, the proof get_proof returns
\* for a stored key verifies against the root hash to Ok(Some(value)).
ProofSoundness ==
    committed =>
        \A k \in Stored : \A p \in {get_proof(Self, db, k)} :
            /\ p.result.ok
            /\ verify_proof(root_hash, k, p.result.v) = Ok(Some(model[k].v))

\* C7: proof of absence.  On a committed trie, the empty one included, the
\* proof get_proof returns for a key that is not stored verifies to Ok(None).
ProofOfAbsence ==
    committed =>
        \A k \in Keys \ Stored : \A p \in {get_proof(Self, db, k)} :
            /\ p.result.ok
            /\ verify_proof(root_hash, k, p.result.v) = Ok(None)

\* C8: proof shape.  On a committed trie get_proof returns, for every key, a
\* list whose first element hashes to the root hash and whose later elements
\* are store encodings referenced by hash from an earlier element.
ProofShape ==
    committed =>
        \A k \in Keys : \A p \in {get_proof(Self, db, k)} :
            /\ p.result.ok
            /\ Len(p.result.v) >= 1
            /\ Keccak(p.result.v[1]) = root_hash
            /\ \A i \in 2..Len(p.result.v) :
                  /\ db_get(db, Keccak(p.result.v[i])) = Some(p.result.v[i])
                  /\ \E j \in 1..(i - 1) :
                        references(p.result.v[j], Keccak(p.result.v[i]))

\* C9: iterator completeness.  On a committed trie, iter() on the committing
\* instance and on one reopened with from() at the root yields each stored
\* pair exactly once, with its full key, and nothing else.
IteratorComplete ==
    committed =>
        /\ yields_stored(collect(db, root_hash, iter(Self), MaxItems))
        /\ \A t \in {from(db, root_hash)} :
              t.ok /\ yields_stored(collect(db, root_hash, iter(t.v), MaxItems))

\* C10: retention.  While every call has returned Ok, every Hash node
\* reachable from the root resolves in the store, and no get fails.
Retention ==
    all_ok => resolves(db, root) /\ \A k \in Keys : get(Self, db, k).ok

\* C11: eviction.  A root_hash() that returns Ok leaves in the store no
\* entry for a hash that was reachable from the root committed before it,
\* that root's own hash included, and is not reachable from the new root.
Eviction ==
    [][(RootHash /\ committed') =>
          \A h \in reachable(db, from_hash(root_hash))
                     \ reachable(db', from_hash(root_hash')) :
              h \notin DOMAIN db']_vars

\* C12: empty idempotence of the root.  Once every key that was inserted has
\* been removed again, whatever the order and the root_hash() calls in
\* between, root_hash() returns KECCAK_NULL_RLP and the store maps that hash
\* to the single byte 0x80.
EmptyIdempotenceRoot ==
    Stored = {} =>
        \A r \in {commit(Self, db, FALSE)} :
            /\ r.result.ok
            /\ r.result.v.root = KECCAK_NULL_RLP
            /\ db_get(r.db, KECCAK_NULL_RLP) = Some(Bytes(<<EMPTY_STRING_CODE>>))

\* A trie that was committed while it held a key, and that has lost every
\* key to remove since
EmptyIdempotenceRootWitness ==
    /\ Stored = {}
    /\ removed # {}
    /\ \E h \in DOMAIN db : h # KECCAK_NULL_RLP
    /\ root.t = "Empty"
    /\ commit(Self, db, FALSE).result.v.root = KECCAK_NULL_RLP

\* The orders in which a caller can go through the keys of S
Orders(S) ==
    {o \in [1..Cardinality(S) -> S] : \A i, j \in DOMAIN o : o[i] = o[j] => i = j}

\* for key in order { trie.remove(key).unwrap() }, from element i on
RECURSIVE remove_all(_, _, _, _)
remove_all(self, d, order, i) ==
    IF i > Len(order) THEN [self |-> self, ok |-> TRUE]
    ELSE The({ IF r.result.ok THEN remove_all(r.self, d, order, i + 1)
               ELSE [self |-> r.self, ok |-> FALSE]
               : r \in {remove(self, d, order[i])} })

\* C13: empty idempotence of the store.  A trie over an empty store that
\* received pairs through insert alone is committed, loses every key to
\* remove, in whatever order, and is committed again: the store then holds
\* the entry KECCAK_NULL_RLP -> [0x80] and nothing else.
EmptyIdempotenceStore ==
    (fresh /\ cache = {}) =>
        \A c1 \in {commit(Self, db, FALSE)} :
            \A order \in Orders(Stored) :
                \A r \in {remove_all(c1.self, c1.db, order, 1)} :
                    \A c2 \in {commit(r.self, c1.db, FALSE)} :
                        (c1.result.ok /\ r.ok /\ c2.result.ok) =>
                            c2.db = [h \in {KECCAK_NULL_RLP} |->
                                        Bytes(<<EMPTY_STRING_CODE>>)]

\* Two tries answer get alike for every key and return the same root hash.
same_content(a, b, d) ==
    /\ \A k \in Keys : get(a, d, k) = get(b, d, k)
    /\ commit(a, d, FALSE).result = commit(b, d, FALSE).result

\* C14: reopen equivalence.  When root_hash() has returned r, from(db, r)
\* succeeds, the reopened trie answers get as the original does, its
\* root_hash() returns r, and an insert or a remove returns on it what it
\* returns on the original and leaves the same content.
ReopenEquivalence ==
    committed =>
        \A t \in {from(db, root_hash)} :
            /\ t.ok
            /\ \A k \in Keys : get(t.v, db, k) = get(Self, db, k)
            /\ commit(t.v, db, FALSE).result = Ok([root |-> root_hash, trie_diff |-> {}])
            /\ \A k \in Keys, v \in Vals \cup {<<>>} :
                  \A a \in {insert(t.v, db, k, v)}, b \in {insert(Self, db, k, v)} :
                      a.result = b.result /\ same_content(a.self, b.self, db)
            /\ \A k \in Keys :
                  \A a \in {remove(t.v, db, k)}, b \in {remove(Self, db, k)} :
                      a.result = b.result /\ same_content(a.self, b.self, db)

\* The Hash nodes a descent along path meets from n on, in order, each with
\* the number of nibbles of path consumed before it.  A hash that the store d
\* does not hold ends the descent.
RECURSIVE walk(_, _, _, _)
walk(d, n, path, path_index) ==
    LET partial == offset(path, path_index)
    IN  CASE n.t = "Branch" ->
                IF partial = <<>> \/ at(partial, 0) = 16 THEN <<>>
                ELSE walk(d, child(n, at(partial, 0)), path, path_index + 1)
          [] n.t = "Extension" ->
                IF common_prefix(partial, n.prefix) = Len(n.prefix)
                THEN walk(d, n.node, path, path_index + Len(n.prefix))
                ELSE <<>>
          [] n.t = "Hash" ->
                <<[hash |-> n.hash, depth |-> path_index]>>
                    \o The({ IF r.ok /\ r.v.some THEN walk(d, r.v.v, path, path_index)
                             ELSE <<>>
                             : r \in {recover_from_db(d, n.hash)} })
          [] OTHER -> <<>>

\* The node on the path of key that the store does not hold: where the
\* descent of the trie along key ends, if it ends at a missing entry.
absent_on_path(key) ==
    {w[Len(w)] : w \in {w \in {walk(db, root, from_raw(key, TRUE), 0)} :
                            w # <<>> /\ w[Len(w)].hash \notin DOMAIN db}}

\* res is Err(MissingTrieNode) for hash h with the caller's key
missing_for(res, h, key) ==
    /\ ~res.ok
    /\ res.err.kind = "MissingTrieNode"
    /\ res.err.node_hash = h
    /\ res.err.err_key = Some(key)

\* C15: fault surfacing.  When the entry of a node on the path of a key was
\* removed from the store by a caller, get, contains, insert, remove and
\* get_proof for that key fail with MissingTrieNode carrying the missing
\* hash and the key, and iter() yields MissingTrieNode for the missing hash.
FaultSurfacing ==
    \A k \in Keys : \A m \in absent_on_path(k) :
        m.hash \in DOMAIN lost =>
            /\ missing_for(get(Self, db, k), m.hash, k)
            /\ missing_for(remove(Self, db, k).result, m.hash, k)
            /\ missing_for(get_proof(Self, db, k).result, m.hash, k)
            /\ \A v \in Vals \cup {<<>>} : missing_for(insert(Self, db, k, v).result, m.hash, k)
            /\ \E item \in items_of(collect(db, root_hash, iter(Self), MaxItems)) :
                  /\ ~item.ok
                  /\ item.err.kind = "MissingTrieNode"
                  /\ item.err.node_hash = m.hash
            /\ missing_for(contains(Self, db, k), m.hash, k)

\* C16: the cursor of the error.  When the descent of get, insert or remove
\* along a key meets, after i nibbles, a Hash node that the store does not
\* hold, the MissingTrieNode error carries traversed = the first i nibbles of
\* the key (no terminator) and root_hash = the trie's committed root hash.
ErrorCursor ==
    \A k \in Keys : \A m \in absent_on_path(k) :
        \A res \in {get(Self, db, k), remove(Self, db, k).result}
                     \cup {insert(Self, db, k, v).result : v \in Vals} :
            /\ ~res.ok
            /\ res.err.kind = "MissingTrieNode"
            /\ m.depth <= Len(from_raw(k, FALSE))
            /\ res.err.traversed = Some(SubSeq(from_raw(k, FALSE), 1, m.depth))
            /\ res.err.root_hash = Some(root_hash)

\* A caller removed the entry of a node below the root, and get of a key
\* whose path goes through it reports the nibbles down to that node.
ErrorCursorWitness ==
    \E k \in Keys : \E m \in absent_on_path(k) :
        /\ m.hash \in DOMAIN lost
        /\ m.depth > 0
        /\ ~get(Self, db, k).ok
        /\ get(Self, db, k).err.traversed = Some(SubSeq(from_raw(k, FALSE), 1, m.depth))
        /\ ~remove(Self, db, k).result.ok

\* The store with the entries that a caller removed put back
Intact == [h \in DOMAIN db \cup DOMAIN lost |-> IF h \in DOMAIN db THEN db[h] ELSE lost[h]]

\* n, or the node that the store d holds for it when n is a Hash node
hydrated(d, n) ==
    IF n.t # "Hash" THEN n
    ELSE The({ IF r.ok /\ r.v.some THEN r.v.v ELSE Empty
               : r \in {recover_from_db(d, n.hash)} })

\* c is the leaf that holds the rest of a path
holds_leaf(c, rest) == c.t = "Leaf" /\ c.key = rest

\* The hashes of the Hash children among the children used of branch n when
\* used is a single index: the child that a collapse of n has to hydrate
sole_hash_child(n, used) ==
    IF Cardinality(used) # 1 THEN {}
    ELSE {child(n, j).hash : j \in {j \in used : child(n, j).t = "Hash"}}

\* The Hash node that is left as the only child of a branch without a value
\* once the key of path is taken out of the trie below n: the sibling of the
\* key's leaf, or the only child of the branch that holds the key's value.
RECURSIVE survivor(_, _, _, _)
survivor(d, n, path, path_index) ==
    LET partial == offset(path, path_index)
    IN  CASE n.t = "Hash" ->
                IF n.hash \in DOMAIN d THEN survivor(d, hydrated(d, n), path, path_index)
                ELSE {}
          [] n.t = "Extension" ->
                IF common_prefix(partial, n.prefix) = Len(n.prefix)
                THEN survivor(d, n.node, path, path_index + Len(n.prefix))
                ELSE {}
          [] n.t = "Branch" ->
                IF at(partial, 0) = 16
                THEN IF n.value.some THEN sole_hash_child(n, used_indexs(n)) ELSE {}
                ELSE IF holds_leaf(hydrated(d, child(n, at(partial, 0))),
                                   offset(path, path_index + 1))
                THEN IF n.value.some THEN {}
                     ELSE sole_hash_child(n, used_indexs(n) \ {at(partial, 0)})
                ELSE survivor(d, child(n, at(partial, 0)), path, path_index + 1)
          [] OTHER -> {}

\* C17: the missing sibling.  When the path of k is in the store and k is
\* deleted on the way down, but the branch that held it is left with a
\* single child whose entry a caller removed from the store, remove(k) fails
\* with MissingTrieNode carrying the hash of that child, no cursor, the
\* trie's root hash and k.
MissingSibling ==
    \A k \in Keys : \A h \in survivor(Intact, root, from_raw(k, TRUE), 0) :
        (h \notin DOMAIN db /\ get(Self, db, k).ok) =>
            remove(Self, db, k).result
                = Err(MissingTrieNode(h, None, Some(root_hash), Some(k)))

\* k is stored and read back while the entry of its only sibling is missing
MissingSiblingWitness ==
    \E k \in Stored : \E h \in survivor(Intact, root, from_raw(k, TRUE), 0) :
        /\ h \in DOMAIN lost
        /\ h \notin DOMAIN db
        /\ get(Self, db, k) = Ok(Some(model[k].v))
        /\ ~remove(Self, db, k).result.ok

EmptyValueRemoves ==
    \A k \in Keys :
        \A i \in {insert(Self, db, k, <<>>)}, r \in {remove(Self, db, k)} :
            /\ i.self = r.self
            /\ r.result.ok =>
                  /\ i.result = Ok(<<>>)
                  /\ get(i.self, db, k) = Ok(None)
            /\ ~r.result.ok => i.result = r.result

\* A stored key and a key that is not stored, both taken by insert with a
\* zero-length value
EmptyValueRemovesWitness ==
    \E k \in Stored, k2 \in Keys \ Stored :
        /\ get(Self, db, k) = Ok(Some(model[k].v))
        /\ insert(Self, db, k, <<>>).result = Ok(<<>>)
        /\ get(insert(Self, db, k, <<>>).self, db, k) = Ok(None)
        /\ insert(Self, db, k2, <<>>).result = Ok(<<>>)
        /\ removed # {}

\* C20: instance independence.  Whatever is inserted, removed and committed
\* through the first trie, get on the second trie over the same store, at
\* the empty root or at the root it was opened at, returns what it returned
\* when that trie was created.
InstanceIndependence ==
    \A k \in Keys : get(other, db, k) = other_view[k]

\* The sequence s without its element i
drop(s, i) == SubSeq(s, 1, i - 1) \o SubSeq(s, i + 1, Len(s))

\* A byte string that decodes to a header for 32 bytes followed by 33
trailing == <<Byte(160)>> \o Repeat(Byte(7), HASHED_LENGTH + 1)

\* What a prover may send instead of the proof p: p, p short of one element,
\* p with the last byte of its first or last element cut off, p in reverse
\* order, and a byte string that is no node encoding.
tampered(p) ==
    {p, <<trailing>>}
        \cup {drop(p, i) : i \in 1..Len(p)}
        \cup {[p EXCEPT ![i] = SubSeq(@, 1, Len(@) - 1)] : i \in {1, Len(p)} \cap 1..Len(p)}
        \cup {[i \in 1..Len(p) |-> p[Len(p) + 1 - i]]}

\* The elements of a proof, each under its hash
elements(proof) ==
    [h \in {Keccak(proof[i]) : i \in 1..Len(proof)} |-> h[1].keccak]

\* No element of proof hashes to rh, or the descent along key from rh
\* through the elements ends at a hash that is not among them.
lacks_node(rh, key, proof) ==
    \/ \A i \in 1..Len(proof) : Keccak(proof[i]) # rh
    \/ \E w \in {walk(elements(proof), from_hash(rh), from_raw(key, TRUE), 0)} :
           w # <<>> /\ w[Len(w)].hash \notin DOMAIN elements(proof)

\* The root hashes a verifier may hold for the proof q: the trie's, that of
\* the empty trie, and the hash of the first element of q.
roots_for(q) == {root_hash, KECCAK_NULL_RLP} \cup {Keccak(q[i]) : i \in {1} \cap 1..Len(q)}

\* C21: an error that verify_proof returns is InvalidProof, and it returns
\* InvalidProof whenever no element of the proof hashes to the root hash or a
\* node on the key's path that is referenced by hash is not among the
\* elements.  The proofs are those get_proof returns for a key and what a
\* prover makes of them; they are verified for that key and for the others.
VerifyRejects ==
    \A k \in Keys : \A p \in {get_proof(Self, db, k).result} :
        p.ok => \A q \in tampered(p.v), k2 \in Keys : \A r \in roots_for(q) :
                    \A res \in {verify_proof(r, k2, q)} :
                        /\ (~res.ok /\ res.err.kind # "Panic") => res.err.kind = "InvalidProof"
                        /\ lacks_node(r, k2, q) => res = Err([kind |-> "InvalidProof"])

\* A committed trie of several nodes: the proof of a stored key is accepted,
\* is rejected when its last element is left out, and is rejected when the
\* root hash is not that of its first element.
VerifyRejectsWitness ==
    /\ committed
    /\ \E k \in Stored : \E p \in {get_proof(Self, db, k).result} :
          /\ p.ok
          /\ Len(p.v) >= 2
          /\ verify_proof(root_hash, k, p.v).ok
          /\ lacks_node(root_hash, k, drop(p.v, Len(p.v)))
          /\ verify_proof(root_hash, k, drop(p.v, Len(p.v))) = Err([kind |-> "InvalidProof"])
          /\ verify_proof(KECCAK_NULL_RLP, k, p.v) = Err([kind |-> "InvalidProof"])

\* C22: clear_trie_from_db on a committed trie returns Ok, leaves in the
\* store no node that was reachable from the root hash, and leaves the empty
\* trie: root hash KECCAK_NULL_RLP, no cache, passing keys or gen keys, and
\* get returning None for every key.
ClearDeletesAll ==
    committed =>
        \A c \in {clear_trie_from_db(Self, db)} :
            /\ c.result.ok
            /\ reachable(db, from_hash(root_hash)) \cap DOMAIN c.db = {}
            /\ c.self = new_trie
            /\ \A k \in Keys : get(c.self, c.db, k) = Ok(None)

\* C23: the root is addressable.  root_hash() succeeds, and the store it
\* leaves maps the hash it returns to the encoding of the root node, whatever
\* the length of that encoding; from() at that hash succeeds, and the root
\* that the trie holds afterwards is the node decoded from that entry.
RootAddressable ==
    \A c \in {commit(Self, db, FALSE)} :
        /\ c.result.ok
        /\ c.result.v.root = Keccak(encode_raw(root).data)
        /\ db_get(c.db, c.result.v.root) = Some(encode_raw(root).data)
        /\ from(c.db, c.result.v.root).ok
        /\ c.self.root_hash = c.result.v.root
        /\ decode_node(c.db[c.result.v.root]) = Ok(c.self.root)

\* A root whose encoding is shorter than 32 bytes, not the empty one, is
\* committed and found in the store under its hash.
RootAddressableWitness ==
    /\ root.t # "Empty"
    /\ Len(encode_raw(root).data) < HASHED_LENGTH
    /\ commit(Self, db, FALSE).result.ok
    /\ commit(Self, db, FALSE).result.v.root \notin DOMAIN db
    /\ commit(Self, db, FALSE).result.v.root \in DOMAIN commit(Self, db, FALSE).db

\* The calls of from, as pairs of a store and a root: on the trie's own
\* store at each of its keys, at the trie's root hash and at the root hash of
\* the empty trie; and, as verify_proof calls it, on the scratch store filled
\* from a proof that a prover may send for a key, at the hash of the proof's
\* first element.
from_calls ==
    {<<db, r>> : r \in DOMAIN db \cup {root_hash, KECCAK_NULL_RLP}}
        \cup UNION {{<<proof_db(Keccak(q[1]), q), Keccak(q[1])>>
                        : q \in {q \in tampered(p.v) : q # <<>>}}
                     : p \in {p \in {get_proof(Self, db, k).result : k \in Keys} : p.ok}}

\* C24 as claimed: from(db, root) returns Err(InvalidStateRoot) exactly when
\* the store has no entry under root, and when it has one it returns a trie
\* whose root_hash is root and whose cache, passing keys and gen keys are
\* empty.
FromFindsRoot ==
    \A c \in from_calls : \A t \in {from(c[1], c[2])} :
        /\ t = Err([kind |-> "InvalidStateRoot"]) <=> c[2] \notin DOMAIN c[1]
        /\ c[2] \in DOMAIN c[1] =>
              /\ t.ok
              /\ t.v.root_hash = c[2]
              /\ t.v.cache = {} /\ t.v.passing_keys = {} /\ t.v.gen_keys = {}

\* C24, amended: from(db, root) returns Err(InvalidStateRoot) exactly when
\* the store has no entry under root.  When it has one that decode_node
\* accepts, from returns a trie whose root is the decoded node, whose
\* root_hash is root and whose cache, passing keys and gen keys are empty;
\* when decode_node does not accept the entry, from fails as decode_node did.
FromDecodesRoot ==
    \A c \in from_calls : \A t \in {from(c[1], c[2])} :
        /\ t = Err([kind |-> "InvalidStateRoot"]) <=> c[2] \notin DOMAIN c[1]
        /\ c[2] \in DOMAIN c[1] =>
              \A n \in {decode_node(c[1][c[2]])} :
                  IF n.ok
                  THEN t = Ok([root |-> n.v, root_hash |-> c[2], cache |-> {},
                               passing_keys |-> {}, gen_keys |-> {}])
                  ELSE t = Err([kind |-> n.err])

\* The trie's store is opened at a committed root that is not the empty
\* one and at a hash it does not hold, and a scratch store of verify_proof
\* at an entry that does not decode.
FromDecodesRootWitness ==
    /\ committed /\ root.t # "Empty"
    /\ from(db, root_hash).ok
    /\ KECCAK_NULL_RLP \notin DOMAIN db
    /\ from(db, KECCAK_NULL_RLP) = Err([kind |-> "InvalidStateRoot"])
    /\ \E c \in from_calls :
          /\ c[2] \in DOMAIN c[1]
          /\ ~decode_node(c[1][c[2]]).ok
          /\ from(c[1], c[2]) = Err([kind |-> "Decoder"])

\* C25: root_hash() is idempotent.  Called again with no insert or remove
\* since it last returned, it returns the same hash, leaves the store as it
\* is, and leaves what get returns for every key as it is.
RootHashIdempotent ==
    committed =>
        \A c \in {commit(Self, db, FALSE)} :
            /\ c.result = Ok([root |-> root_hash, trie_diff |-> {}])
            /\ c.db = db
            /\ \A k \in Keys : get(c.self, c.db, k) = get(Self, db, k)

\* C26: a trie created with new(db), over whatever the store holds, is the
\* empty trie.  Its root hash is KECCAK_NULL_RLP, the keccak of the single
\* byte 0x80; get returns None and contains returns false for every key; and
\* root_hash() on it returns that constant.
NewIsEmpty ==
    \A t \in {new_trie} :
        /\ t.root_hash = KECCAK_NULL_RLP
        /\ encode_raw(t.root).data = <<Byte(128)>>
        /\ t.root_hash = Keccak(encode_raw(t.root).data)
        /\ \A k \in Keys : get(t, db, k) = Ok(None) /\ contains(t, db, k) = Ok(FALSE)
        /\ commit(t, db, FALSE).result = Ok([root |-> KECCAK_NULL_RLP, trie_diff |-> {}])

\* new() over a store that holds the committed nodes of another trie, which
\* has a value for a key that the new trie has not
NewIsEmptyWitness ==
    /\ committed
    /\ db # EmptyDb
    /\ KECCAK_NULL_RLP \notin DOMAIN db
    /\ \E k \in Stored : get(Self, db, k).ok /\ get(new_trie, db, k) = Ok(None)
    /\ commit(new_trie, db, FALSE).result.ok

\* The nodes that the trie holds in memory from n down
RECURSIVE nodes_of(_)
nodes_of(n) ==
    {n} \cup CASE n.t = "Branch" -> UNION {nodes_of(child(n, i)) : i \in 0..15}
               [] n.t = "Extension" -> nodes_of(n.node)
               [] OTHER -> {}

\* The node n as the store holds it: a child whose encoding has 32 bytes or
\* more is the Hash reference that write_node returns for it, a shorter one
\* stays in place, itself as stored.
RECURSIVE as_stored(_)
stored_child(c) ==
    IF c.t \in {"Hash", "Empty"} THEN c
    ELSE The({ IF w.enc.hash THEN from_hash(w.enc.h) ELSE as_stored(c)
               : w \in {write_node(c)} })

as_stored(n) ==
    CASE n.t = "Branch" ->
            [n EXCEPT !.children = [i \in 1..16 |-> stored_child(n.children[i])]]
      [] n.t = "Extension" -> [n EXCEPT !.node = stored_child(n.node)]
      [] OTHER -> n

\* C27: codec round trip.  For every node that the trie holds, taken as it is
\* stored, decode_node of its encode_raw is the node itself.
CodecRoundTrip ==
    \A n \in nodes_of(root) :
        n.t # "Hash" =>
            decode_node(encode_raw(as_stored(n)).data) = Ok(as_stored(n))

\* The nodes of the trie from n down, in memory and hydrated from the store d
RECURSIVE trie_nodes(_, _)
trie_nodes(d, n) ==
    {n} \cup CASE n.t = "Branch" -> UNION {trie_nodes(d, child(n, i)) : i \in 0..15}
               [] n.t = "Extension" -> trie_nodes(d, n.node)
               [] n.t = "Hash" ->
                     The({ IF r.ok /\ r.v.some THEN trie_nodes(d, r.v.v) ELSE {}
                           : r \in {recover_from_db(d, n.hash)} })
               [] OTHER -> {}

\* The number of entries of a branch that are in use: its children that are
\* not Empty, and its value
entries(branch) ==
    Cardinality(used_indexs(branch)) + (IF branch.value.some THEN 1 ELSE 0)

\* C28: branch canonicality.  In every state reached by successful insert,
\* remove and root_hash calls, every Branch of the trie, in memory or
\* hydrated from the store, has at least two entries in use among its 16
\* children and its value.
BranchCanonical ==
    all_ok => \A n \in trie_nodes(db, root) : n.t = "Branch" => entries(n) >= 2

\* A remove took an entry out of a branch that had two (the in-memory trie
\* holds no branch with fewer than three entries that the store does not
\* hold too, and the trie is not empty).
BranchCanonicalWitness ==
    /\ all_ok
    /\ root.t = "Leaf"
    /\ \E h \in DOMAIN db :
           \E r \in {decode_node(db[h])} :
               r.ok /\ r.v.t = "Branch" /\ entries(r.v) = 2 /\ r.v.value.some

\* C29: extension canonicality.  In every state reached by successful
\* insert, remove and root_hash calls, every Extension of the trie has a
\* prefix that is not empty, and its child, taken from the store where it is
\* a Hash that the store holds, is neither Empty nor an Extension.
ExtensionCanonical ==
    all_ok =>
        \A n \in trie_nodes(db, root) :
            n.t = "Extension" =>
                /\ n.prefix # <<>>
                /\ n.node.t \notin {"Empty", "Extension"}
                /\ (n.node.t = "Hash" /\ n.node.hash \in DOMAIN db) =>
                       \A r \in {recover_from_db(db, n.node.hash)} :
                           r.ok => r.v.v.t \notin {"Empty", "Extension", "Hash"}

\* A remove after a commit merged two extensions: the store holds the
\* committed root, a branch whose child 1 is an extension, and the root is
\* now the extension of both prefixes over that extension's branch.
ExtensionCanonicalWitness ==
    /\ all_ok
    /\ root.t = "Extension"
    /\ root.node.t \in {"Branch", "Hash"}
    /\ \E h \in DOMAIN db :
           \E r \in {decode_node(db[h])} :
               /\ r.ok
               /\ r.v.t = "Branch"
               /\ hydrated(db, child(r.v, 1)).t = "Extension"
               /\ root.prefix = join(<<1>>, hydrated(db, child(r.v, 1)).prefix)

\* get recording the hashes below the root as passed, as insert_at, delete_at
\* do for the nodes they replace
get_call_records_passing(self, d, key) ==
    [self |-> [self EXCEPT !.passing_keys = @ \cup reachable(d, self.root)],
     db |-> d, result |-> get(self, d, key)]

\* The calls get and contains with what they leave behind: they take &self
\* and read the store through recover_from_db, so the trie and the store
\* are as they were.
get_call(self, d, key) == [self |-> self, db |-> d, result |-> get(self, d, key)]

contains_call(self, d, key) ==
    [self |-> self, db |-> d, result |-> contains(self, d, key)]

commit_returns(self, d) ==
    {commit(self, d, flag) : flag \in BOOLEAN}
        \cup {commit_store_err(self, d, flag, failing) :
                  flag \in BOOLEAN, failing \in StoreCalls}

\* C31: every call to commit, root_hash or root_hash_with_changed_nodes,
\* leaves the cache, the passing keys and the gen keys empty when it returns.
CommitDrains ==
    \A c \in commit_returns(Self, db) :
        /\ c.self.cache = {}
        /\ c.self.passing_keys = {}
        /\ c.self.gen_keys = {}

\* C32: root_hash_with_changed_nodes returns as trie_diff the entries that
\* this commit writes to the store: each is in the store afterwards under
\* the keccak of its data, the store gained no entry besides them, the entry
\* of the returned root hash is among them, and the call leaves the trie
\* and the store as root_hash does.
ChangedNodes ==
    \A c \in {commit(Self, db, TRUE)} :
        c.result.ok =>
            /\ \A p \in c.result.v.trie_diff :
                   /\ p.hash = Keccak(p.data)
                   /\ db_get(c.db, p.hash) = Some(p.data)
            /\ DOMAIN c.db \ DOMAIN db \subseteq {p.hash : p \in c.result.v.trie_diff}
            /\ \E p \in c.result.v.trie_diff : p.hash = c.result.v.root
            /\ \A r \in {commit(Self, db, FALSE)} :
                   /\ r.self = c.self
                   /\ r.db = c.db
                   /\ r.result = Ok([root |-> c.result.v.root, trie_diff |-> {}])

\* A commit after an edit below committed nodes: it writes three entries or
\* more, among them new ones, and evicts an entry.
ChangedNodesWitness ==
    /\ passing_keys # {}
    /\ \E c \in {commit(Self, db, TRUE)} :
           /\ c.result.ok
           /\ Cardinality(c.result.v.trie_diff) >= 3
           /\ DOMAIN c.db \ DOMAIN db # {}
           /\ DOMAIN db \ DOMAIN c.db # {}

\* What a traversal of the trie from n down yields, path being the nibbles
\* above n: the value of a branch, then its children in the order of their
\* slots; the pair of a leaf; for a Hash that cannot be hydrated one error,
\* and nothing below it.
RECURSIVE in_order(_, _, _, _), children_in_order(_, _, _, _, _)
in_order(d, rh, n, path) ==
    CASE n.t = "Leaf" -> <<Ok(<<nibbles_encode_raw(path \o n.key), n.value>>)>>
      [] n.t = "Extension" -> in_order(d, rh, n.node, path \o n.prefix)
      [] n.t = "Branch" ->
            (IF n.value.some THEN <<Ok(<<nibbles_encode_raw(path), n.value.v>>)>>
             ELSE <<>>)
                \o children_in_order(d, rh, n, path, 0)
      [] n.t = "Hash" ->
            The({ IF ~r.ok THEN <<r>>
                  ELSE IF ~r.v.some
                  THEN <<Err(MissingTrieNode(n.hash, Some(path), Some(rh), None))>>
                  ELSE in_order(d, rh, r.v.v, path)
                  : r \in {recover_from_db(d, n.hash)} })
      [] OTHER -> <<>>

children_in_order(d, rh, n, path, i) ==
    IF i > 15 THEN <<>>
    ELSE in_order(d, rh, child(n, i), Append(path, i))
             \o children_in_order(d, rh, n, path, i + 1)

\* C33: iterator termination.  On every trie, also one whose store lacks
\* nodes it references, the calls of next() on iter() come to None within
\* MaxItems calls, and what they yield is the traversal: a Hash that cannot
\* be hydrated gives one error item, and the items behind it follow.
IterTerminates ==
    \A c \in {collect(db, root_hash, iter(Self), MaxItems)} :
        /\ c.done
        /\ c.items = in_order(db, root_hash, root, <<>>)

\* The store lacks a node, and the iteration yields its error followed by a
\* pair.
IterTerminatesWitness ==
    /\ lost # EmptyDb
    /\ \E c \in {collect(db, root_hash, iter(Self), MaxItems)} :
           \E i \in 1..(Len(c.items) - 1) :
               /\ ~c.items[i].ok
               /\ c.items[i].err.kind = "MissingTrieNode"
               /\ c.items[i + 1].ok

\* The iterator after each of at most fuel calls of next, the last being the
\* call that returned None
RECURSIVE iter_states(_, _, _, _)
iter_states(d, rh, it, fuel) ==
    IF fuel = 0 THEN <<>>
    ELSE The({ IF ~n.item.some THEN <<n.it>>
               ELSE <<n.it>> \o iter_states(d, rh, n.it, fuel - 1)
               : n \in {next(d, rh, it)} })

\* The nibbles that the frame tn of the stack has put on the running path:
\* a leaf its key once it was yielded, an extension its prefix once its child
\* was pushed, a branch one nibble once a child was pushed.
frame_nibbles(tn) ==
    CASE tn.node.t = "Leaf" /\ tn.status.s = "End" -> Len(tn.node.key)
      [] tn.node.t = "Extension" /\ tn.status.s = "End" -> Len(tn.node.prefix)
      [] tn.node.t = "Branch" /\ tn.status.s = "End" -> 1
      [] tn.node.t = "Branch" /\ tn.status.s = "Child" ->
            IF tn.status.i >= 1 THEN 1 ELSE 0
      [] OTHER -> 0

RECURSIVE stack_nibbles(_)
stack_nibbles(nodes) ==
    IF nodes = <<>> THEN 0
    ELSE stack_nibbles(pop(nodes)) + frame_nibbles(nodes[Len(nodes)])

\* a is before b in the lexicographic order of byte strings
lex_less(a, b) ==
    \E i \in 1..(Min(Len(a), Len(b)) + 1) :
        /\ \A j \in 1..(i - 1) : a[j] = b[j]
        /\ IF i > Len(a) THEN i <= Len(b)
           ELSE i <= Len(b) /\ Val(a[i]) < Val(b[i])

\* C34: iterator order.  The keys that iter() yields ascend strictly in
\* lexicographic order, the value of a branch before its children and the
\* children in the order of their slots; and after every call of next the
\* running path holds what the frames on the stack put on it and nothing of
\* a frame that was popped, so it is empty at the end.
IterOrder ==
    /\ \A c \in {collect(db, root_hash, iter(Self), MaxItems)} :
           \A i, j \in 1..Len(c.items) :
               (i < j /\ c.items[i].ok /\ c.items[j].ok) =>
                   lex_less(c.items[i].v[1], c.items[j].v[1])
    /\ \A sts \in {iter_states(db, root_hash, iter(Self), MaxItems)} :
           \A i \in 1..Len(sts) :
               Len(sts[i].nibble) = stack_nibbles(sts[i].nodes)

\* The iteration yields the value of a branch, then two of its children,
\* and ends.
IterOrderWitness ==
    \E c \in {collect(db, root_hash, iter(Self), MaxItems)} :
        /\ c.done
        /\ Len(c.items) = 3
        /\ \A i \in 1..3 : c.items[i].ok
        /\ lex_less(c.items[1].v[1], c.items[2].v[1])
        /\ Len(c.items[2].v[1]) = Len(c.items[3].v[1])

\* The result self2, over the store d, of a successful edit of key left
\* every other key as it was in the trie self over d, also after the
\* root_hash() that follows.
others_kept(self, d, self2, key) ==
    \A k2 \in (Keys \cup CanonKeys) \ {key} :
        /\ get(self2, d, k2) = get(self, d, k2)
        /\ \A c \in {commit(self2, d, FALSE)} :
               c.result.ok => get(c.self, c.db, k2) = get(self, d, k2)

\* C35: frame of an edit.  A successful insert(k, v) or remove(k) changes
\* only k: every other key reads the same before the call, after it and
\* after a following root_hash(), also where two subtrees have the same
\* encoding and so the same hash.
EditFrame ==
    \A k \in CanonKeys :
        /\ \A v \in Vals :
               \A r \in {insert(Self, db, k, v)} :
                   r.result.ok => others_kept(Self, db, r.self, k)
        /\ \A r \in {remove(Self, db, k)} :
               r.result.ok => others_kept(Self, db, r.self, k)

\* The tree that the trie holds in memory from n down is canonical: a branch
\* has two entries or more, an extension a prefix and a child that is
\* neither Empty nor an extension.
canonical(n) ==
    \A x \in nodes_of(n) :
        /\ x.t = "Branch" => entries(x) >= 2
        /\ x.t = "Extension" =>
               x.prefix # <<>> /\ x.node.t \notin {"Empty", "Extension"}

\* The trie self2 that a failed call left reads as self did, over the store
\* d, wherever self could be read, and its tree is canonical if that of
\* self was.
unchanged_by_failure(self, d, self2) ==
    /\ \A k2 \in Keys \cup CanonKeys :
           get(self, d, k2).ok => get(self2, d, k2) = get(self, d, k2)
    /\ canonical(self.root) => canonical(self2.root)

\* C36: failure atomicity.  An insert or a remove that returns an error
\* leaves the contents of the trie unchanged: every get that succeeded
\* before the call returns the same after it, and the tree in memory is
\* still canonical.
FailureAtomic ==
    \A k \in CanonKeys :
        /\ \A v \in Vals :
               \A r \in {insert(Self, db, k, v)} :
                   ~r.result.ok => unchanged_by_failure(Self, db, r.self)
        /\ \A r \in {remove(Self, db, k)} :
               ~r.result.ok => unchanged_by_failure(Self, db, r.self)

\* C37: remove of a key that the trie does not hold is a no-op.  It returns
\* Ok(false) and leaves the tree, the cache, the passing keys and the gen
\* keys as they were, so that the root_hash() that follows returns what it
\* would have returned without the call and leaves the same store.
RemoveAbsentNoop ==
    \A k \in Keys :
        get(Self, db, k) = Ok(None) =>
            \A r \in {remove(Self, db, k)} :
                /\ r.result = Ok(FALSE)
                /\ r.self = Self
                /\ \A c \in {commit(r.self, db, FALSE)} :
                       /\ c.result = commit(Self, db, FALSE).result
                       /\ c.db = commit(Self, db, FALSE).db

\* C38: clear_trie_from_db returns Ok, and does not come to the expect() on
\* a key that the store lacks, in every state that new, insert, remove,
\* root_hash and clear_trie_from_db itself lead to over a store that nobody
\* else modifies: also on a trie that was never committed and on one that
\* references one hash from two places.
ClearReturnsOk == clear_trie_from_db(Self, db).result.ok

\* What a prover may send to the holder of the root hash: the proofs that
\* get_proof returns for the keys, what tampered makes of them, and each
\* proof with more elements before or behind it (the proof of another key,
\* a byte string that is no node encoding).
forged ==
    UNION {tampered(p.v)
               \cup {p.v \o <<trailing>>, <<trailing>> \o p.v}
               \cup {p.v \o q.v : q \in {q \in {get_proof(Self, db, k).result
                                                     : k \in Keys} : q.ok}}
           : p \in {p \in {get_proof(Self, db, k).result : k \in Keys} : p.ok}}

\* C39: proof unforgeability.  On a committed trie with root hash r, for
\* every key and every proof a prover may send, verify_proof(r, key, proof)
\* returns Err(InvalidProof) or what get(key) returns on the trie; and when
\* it accepts a proof it returns the same for the proof with elements added
\* or in another order.
Unforgeable ==
    committed =>
        \A q \in forged, k \in Keys :
            \A res \in {verify_proof(root_hash, k, q)} :
                /\ res = Err([kind |-> "InvalidProof"]) \/ res = get(Self, db, k)
                /\ res.ok =>
                      /\ verify_proof(root_hash, k, q \o <<trailing>>) = res
                      /\ verify_proof(root_hash, k,
                                      [i \in 1..Len(q) |-> q[Len(q) + 1 - i]]) = res

\* On a committed trie of several nodes, the proof of one stored key is
\* rejected for another stored key, and is accepted for its own key, in
\* reverse order and with elements added, with the stored value.
UnforgeableWitness ==
    /\ committed
    /\ \E k \in Stored, k2 \in Stored : \E p \in {get_proof(Self, db, k).result} :
          /\ p.ok
          /\ Len(p.v) >= 2
          /\ verify_proof(root_hash, k, p.v) = Ok(model[k])
          /\ verify_proof(root_hash, k, <<trailing>> \o p.v) = Ok(model[k])
          /\ verify_proof(root_hash, k2, p.v) = Err([kind |-> "InvalidProof"])

====
